---- MODULE Spec2Model ----
(***************************************************************************)
(* Listing cache, search orchestration and listing verification of the     *)
(* job-search aggregator: app/lib/jobCacheService.ts (which also carries   *)
(* jobVerificationService), app/api/jobs/route.ts and                      *)
(* app/api/jobs/verify/[id]/route.ts.                                      *)
(*                                                                         *)
(* The clock counts seconds; the source's millisecond constants appear     *)
(* here divided by 1000.  Every `await` of the source is a point where     *)
(* other requests may run, so each handler is a sequence of steps that     *)
(* begin after one await and run up to the next.                           *)
(***************************************************************************)
EXTENDS Integers, Sequences, FiniteSets, TLC

(***************************************************************************)
(* Bounds of the model.                                                    *)
(***************************************************************************)
MaxRequests == 3

(***************************************************************************)
(* Program constants.                                                      *)
(***************************************************************************)
DAY == 24 * 60 * 60
DEFAULT_EXPIRATION_MS == 20 * DAY
TEN_DAYS_MS == 10 * DAY
FIFTEEN_DAYS_MS == 15 * DAY
DAILY_LIMIT == 90
DEFAULT_BATCH_SIZE == 100
RESULTS_PER_PAGE == 10
NULL == -1

(***************************************************************************)
(* The clock.  It is read through new Date(), Date.now() and               *)
(* Timestamp.now(); the model lets it stand on the start, on each gate of  *)
(* the source (10, 15 and 20 days) and on seconds next to a gate, so that  *)
(* every gate is met from below, exactly and from above (ten days less a   *)
(* second lie between 10 days and 20 days less a second).                  *)
(***************************************************************************)
ClockValues ==
    { 0, 10 * DAY, 15 * DAY, 15 * DAY + 1, 20 * DAY - 1, 20 * DAY, 20 * DAY + 1 }

\* new Date().toDateString(): the local calendar day of an instant
toDateString(t) == t \div DAY

(***************************************************************************)
(* Inputs.                                                                 *)
(***************************************************************************)
JobIds == {1, 2}

\* the listing the provider reports under an id; listing 2 has no redirect URL
redirect_url(id) == IF id = 2 THEN "" ELSE "https://jobs.example/" \o ToString(id)

SearchParams ==
    { [title |-> "frontend dev", location |-> "", job_type |-> "", page |-> pg] :
        pg \in {1, 2} }

\* the `results` array of a provider page: listing ids in the provider's order
ResultLists ==
    { [i \in 1..n |-> i] : n \in 0..Cardinality(JobIds) }

ProviderOutcomes ==
    { [kind |-> "throw", status |-> 0, results |-> <<>>, count |-> 0] }
    \cup { [kind |-> "response", status |-> st, results |-> <<>>, count |-> 0] :
             st \in {500} }
    \cup { [kind |-> "response", status |-> 200, results |-> r, count |-> Len(r)] :
             r \in ResultLists }

VARIABLES
    now,                  \* the wall clock, in seconds
    env,                  \* process.env: are ADZUNA_APP_ID, _API_KEY, _BASE_URL set
    cachedJobs,           \* collection "cachedJobs": listing id -> document
    cachedSearchResults,  \* collection "cachedSearchResults": cache key -> document
    adzunaRequestsToday,  \* route.ts module counter
    lastResetDate,        \* route.ts module variable
    search,               \* the requests to GET /api/jobs in flight, by slot
    verify,               \* the requests to GET /api/jobs/verify/[id], by slot
    cleanup,              \* the cleanupExpiredJobs() calls in flight
    arrivals,             \* how many requests the callers have sent
    appliedJobs,          \* collection "appliedJobs": document id -> document
    apply,                \* the appliedJobsService calls in flight, by slot
    issued,               \* history: the provider requests issued on the last day
                          \* on which one was issued
    fetched               \* history: per cache key, when the provider last answered
                          \* a search for it with success

vars == <<now, env, cachedJobs, cachedSearchResults, adzunaRequestsToday,
          lastResetDate, search, verify, cleanup, arrivals, appliedJobs, apply,
          issued, fetched>>

history == <<issued, fetched>>

store == <<cachedJobs, cachedSearchResults>>
applied == <<appliedJobs, apply>>
counter == <<adzunaRequestsToday, lastResetDate>>

(***************************************************************************)
(* jobCacheService.ts                                                      *)
(***************************************************************************)
\* `${title || ''}_${location || ''}_${job_type || ''}_${page || 1}`
getSearchCacheKey(params) ==
    params.title \o "_" \o params.location \o "_" \o params.job_type \o "_"
        \o ToString(IF params.page = 0 THEN 1 ELSE params.page)

\* the comparison with >= in place of >: an entry expires on reaching 20 days
IsExpiredInclusive(createdAt, t) == t >= createdAt + DEFAULT_EXPIRATION_MS

\* new Date() > new Date(createdAt + DEFAULT_EXPIRATION_MS)
IsExpired(createdAt, t) == t > createdAt + DEFAULT_EXPIRATION_MS

\* getCachedSearchResults: the document, or null when it is missing, expired,
\* or the store read throws
NoSearchResult == [found |-> FALSE]

getCachedSearchResults(params, storeOk) ==
    LET cacheKey == getSearchCacheKey(params) IN
    IF ~storeOk THEN NoSearchResult
    ELSE IF cacheKey \notin DOMAIN cachedSearchResults THEN NoSearchResult
    ELSE IF IsExpired(cachedSearchResults[cacheKey].createdAt, now) THEN NoSearchResult
    ELSE [found |-> TRUE, doc |-> cachedSearchResults[cacheKey]]

\* the document batch.set writes for one listing of a search
NewJobDoc(id, stamp) ==
    [ id |-> id,
      redirect_url |-> redirect_url(id),
      createdAt |-> stamp,
      verifiedAt |-> NULL,
      isValid |-> TRUE,
      verificationAttempts |-> 0 ]

\* the document batch.set writes for the search itself
NewSearchDoc(params, jobs, totalJobs, totalPages, stamp) ==
    [ params |-> params,
      jobIds |-> jobs,
      totalJobs |-> totalJobs,
      totalPages |-> totalPages,
      createdAt |-> stamp ]

Range(s) == { s[i] : i \in DOMAIN s }

\* the listings table after batch.commit() of cacheSearchResults
JobsAfterCache(jobs, stamp) ==
    [ id \in DOMAIN cachedJobs \cup Range(jobs) |->
        IF id \in Range(jobs) THEN NewJobDoc(id, stamp) ELSE cachedJobs[id] ]

\* a table in which the entry already stored under a key is kept
SearchesAfterCacheKeepingFirst(params, jobs, totalJobs, totalPages, stamp) ==
    LET cacheKey == getSearchCacheKey(params) IN
    [ k \in DOMAIN cachedSearchResults \cup {cacheKey} |->
        IF k \in DOMAIN cachedSearchResults
        THEN cachedSearchResults[k]
        ELSE NewSearchDoc(params, jobs, totalJobs, totalPages, stamp) ]

\* the search-results table after batch.commit() of cacheSearchResults
SearchesAfterCache(params, jobs, totalJobs, totalPages, stamp) ==
    LET cacheKey == getSearchCacheKey(params) IN
    [ k \in DOMAIN cachedSearchResults \cup {cacheKey} |->
        IF k = cacheKey
        THEN NewSearchDoc(params, jobs, totalJobs, totalPages, stamp)
        ELSE cachedSearchResults[k] ]

\* getCachedJob: the document, or null when it is missing, expired, or the read throws
NoJob == [found |-> FALSE]

getCachedJob(jobId, storeOk) ==
    IF ~storeOk THEN NoJob
    ELSE IF jobId \notin DOMAIN cachedJobs THEN NoJob
    ELSE IF IsExpired(cachedJobs[jobId].createdAt, now) THEN NoJob
    ELSE [found |-> TRUE, doc |-> cachedJobs[jobId]]

\* the listings table after updateDoc of updateJobValidity
JobsAfterUpdate(jobId, isValid, stamp, attempts) ==
    [cachedJobs EXCEPT ![jobId] =
        [@ EXCEPT !.isValid = isValid, !.verifiedAt = stamp,
                  !.verificationAttempts = attempts]]

\* (await getDoc(jobRef)).data()?.verificationAttempts + 1 || 1
NextAttempts(jobId) ==
    IF jobId \in DOMAIN cachedJobs
    THEN (IF cachedJobs[jobId].verificationAttempts + 1 = 0
          THEN 1 ELSE cachedJobs[jobId].verificationAttempts + 1)
    ELSE 1

\* Math.ceil(count / results_per_page)
CeilDiv(a, b) == (a + b - 1) \div b

(***************************************************************************)
(* route.ts: GET /api/jobs                                                 *)
(***************************************************************************)
\* the requests the server holds at one time
SearchSlots == {1, 2}

NoResponse == [status |-> 0]

ErrorResponse(status, error) == [status |-> status, error |-> error]

\* The request's position and locals; history kept with it: calls, the provider
\* requests it issued; lookupOk, whether its cache lookup reached the store;
\* lastFetch, the entry of `fetched` for its key when it arrived; lastCommit, the
\* timestamp of the cache entry stored under its key when it arrived; readOk,
\* whether the reads of getCachedJobsByIds reached the store; cached, what became
\* of its cacheSearchResults ("none" while it has not run); provider, the HTTP
\* status the provider answered with (0 while it has not, NULL for a fetch that
\* threw).
IdleSearch ==
    [ pc |-> "idle", params |-> [page |-> 0], skipCache |-> FALSE,
      jobIds |-> <<>>, totalJobs |-> 0, totalPages |-> 0, i |-> 0, jobs |-> <<>>,
      stamp |-> 0, calls |-> 0, lookupOk |-> TRUE, lastFetch |-> NULL,
      lastCommit |-> NULL, readOk |-> TRUE, cached |-> "none",
      provider |-> 0, resp |-> NoResponse ]

\* history: the provider requests issued so far in the local day of `now`
IssuedToday == IF issued.day = toDateString(now) THEN issued.n ELSE 0

\* checkAndResetCounter: the counter after it ran
CounterAfterReset == IF toDateString(now) # lastResetDate THEN 0 ELSE adzunaRequestsToday

\* the comparison with > in place of >=
LimitExceeded(n) == n > DAILY_LIMIT

\* adzunaRequestsToday >= 90
LimitReached(n) == n >= DAILY_LIMIT

\* a request arrives; lines 27-43
StartSearch(r, params, skipCache) ==
    /\ search[r].pc = "idle"
    /\ \A q \in SearchSlots : q < r => search[q].pc # "idle"
    /\ LET cacheKey == getSearchCacheKey(params) IN
       search' = [search EXCEPT ![r] = [IdleSearch EXCEPT
                    !.pc = "lookup", !.params = params, !.skipCache = skipCache,
                    !.lastFetch = IF cacheKey \in DOMAIN fetched
                                  THEN fetched[cacheKey] ELSE NULL,
                    !.lastCommit = IF cacheKey \in DOMAIN cachedSearchResults
                                   THEN cachedSearchResults[cacheKey].createdAt
                                   ELSE NULL]]
    /\ UNCHANGED <<now, env, applied, store, counter, verify, cleanup, history>>

\* the response of a cache hit, lines 63-69
HitResponse(s, jobs) ==
    [ status |-> 200, jobs |-> jobs, totalJobs |-> s.totalJobs,
      totalPages |-> s.totalPages, currentPage |-> s.params.page, fromCache |-> TRUE ]

\* the response of a fresh fetch, lines 165-170 and 183
FreshResponse(s) ==
    [ status |-> 200, jobs |-> s.jobIds, totalJobs |-> s.totalJobs,
      totalPages |-> s.totalPages, currentPage |-> s.params.page, fromCache |-> FALSE ]

\* a route that looks at the daily budget before it looks at the credentials
LookupQuotaFirst(r, storeOk) ==
    /\ search[r].pc = "lookup"
    /\ LET cachedResults ==
             IF search[r].skipCache THEN NoSearchResult
             ELSE getCachedSearchResults(search[r].params, storeOk)
           req == [search[r] EXCEPT !.lookupOk = storeOk \/ search[r].skipCache]
       IN
       IF cachedResults.found
       THEN /\ LET s == [req EXCEPT !.jobIds = cachedResults.doc.jobIds,
                                    !.totalJobs = cachedResults.doc.totalJobs,
                                    !.totalPages = cachedResults.doc.totalPages]
               IN search' = [search EXCEPT ![r] =
                    IF Len(s.jobIds) = 0
                    THEN [s EXCEPT !.pc = "done", !.resp = HitResponse(s, <<>>)]
                    ELSE [s EXCEPT !.pc = "hit_read", !.i = 1]]
            /\ UNCHANGED <<counter, issued>>
       ELSE IF LimitReached(CounterAfterReset)
       THEN /\ adzunaRequestsToday' = CounterAfterReset
            /\ lastResetDate' = toDateString(now)
            /\ search' = [search EXCEPT ![r] = [req EXCEPT !.pc = "done",
                            !.resp = ErrorResponse(429, "API rate limit reached for today")]]
            /\ UNCHANGED issued
       ELSE IF ~env
       THEN /\ search' = [search EXCEPT ![r] = [req EXCEPT !.pc = "done",
                            !.resp = ErrorResponse(500, "API credentials not configured")]]
            /\ adzunaRequestsToday' = CounterAfterReset
            /\ lastResetDate' = toDateString(now)
            /\ UNCHANGED issued
       ELSE /\ adzunaRequestsToday' = CounterAfterReset + 1
            /\ lastResetDate' = toDateString(now)
            /\ search' = [search EXCEPT ![r] = [req EXCEPT !.pc = "fetch", !.calls = @ + 1]]
            /\ issued' = [day |-> toDateString(now), n |-> IssuedToday + 1]
    /\ UNCHANGED <<now, env, applied, store, verify, cleanup, arrivals, fetched>>

\* a route that lets a failed cache read reach its outer catch
LookupFailClosed(r, storeOk) ==
    /\ search[r].pc = "lookup"
    /\ LET cachedResults ==
             IF search[r].skipCache THEN NoSearchResult
             ELSE getCachedSearchResults(search[r].params, storeOk)
           req == [search[r] EXCEPT !.lookupOk = storeOk \/ search[r].skipCache]
       IN
       IF ~storeOk /\ ~search[r].skipCache
       THEN /\ search' = [search EXCEPT ![r] = [req EXCEPT !.pc = "done",
                            !.resp = ErrorResponse(500, "Internal server error")]]
            /\ UNCHANGED <<counter, issued>>
       ELSE IF cachedResults.found
       THEN /\ LET s == [req EXCEPT !.jobIds = cachedResults.doc.jobIds,
                                    !.totalJobs = cachedResults.doc.totalJobs,
                                    !.totalPages = cachedResults.doc.totalPages]
               IN search' = [search EXCEPT ![r] =
                    IF Len(s.jobIds) = 0
                    THEN [s EXCEPT !.pc = "done", !.resp = HitResponse(s, <<>>)]
                    ELSE [s EXCEPT !.pc = "hit_read", !.i = 1]]
            /\ UNCHANGED <<counter, issued>>
       ELSE IF ~env
       THEN /\ search' = [search EXCEPT ![r] = [req EXCEPT !.pc = "done",
                            !.resp = ErrorResponse(500, "API credentials not configured")]]
            /\ UNCHANGED <<counter, issued>>
       ELSE IF LimitReached(CounterAfterReset)
       THEN /\ adzunaRequestsToday' = CounterAfterReset
            /\ lastResetDate' = toDateString(now)
            /\ search' = [search EXCEPT ![r] = [req EXCEPT !.pc = "done",
                            !.resp = ErrorResponse(429, "API rate limit reached for today")]]
            /\ UNCHANGED issued
       ELSE /\ adzunaRequestsToday' = CounterAfterReset + 1
            /\ lastResetDate' = toDateString(now)
            /\ search' = [search EXCEPT ![r] = [req EXCEPT !.pc = "fetch", !.calls = @ + 1]]
            /\ issued' = [day |-> toDateString(now), n |-> IssuedToday + 1]
    /\ UNCHANGED <<now, env, applied, store, verify, cleanup, arrivals, fetched>>

\* lines 45-151: the cache lookup and, on a miss, everything up to the provider call
Lookup(r, storeOk) ==
    /\ search[r].pc = "lookup"
    /\ LET cachedResults ==
             IF search[r].skipCache THEN NoSearchResult
             ELSE getCachedSearchResults(search[r].params, storeOk)
           req == [search[r] EXCEPT !.lookupOk = storeOk \/ search[r].skipCache]
       IN
       IF cachedResults.found
       THEN /\ LET s == [req EXCEPT !.jobIds = cachedResults.doc.jobIds,
                                    !.totalJobs = cachedResults.doc.totalJobs,
                                    !.totalPages = cachedResults.doc.totalPages]
               IN search' = [search EXCEPT ![r] =
                    IF Len(s.jobIds) = 0
                    THEN [s EXCEPT !.pc = "done", !.resp = HitResponse(s, <<>>)]
                    ELSE [s EXCEPT !.pc = "hit_read", !.i = 1]]
            /\ UNCHANGED <<counter, issued>>
       ELSE IF ~env
       THEN /\ search' = [search EXCEPT ![r] = [req EXCEPT !.pc = "done",
                            !.resp = ErrorResponse(500, "API credentials not configured")]]
            /\ UNCHANGED <<counter, issued>>
       ELSE IF LimitReached(CounterAfterReset)
       THEN /\ adzunaRequestsToday' = CounterAfterReset
            /\ lastResetDate' = toDateString(now)
            /\ search' = [search EXCEPT ![r] = [req EXCEPT !.pc = "done",
                            !.resp = ErrorResponse(429, "API rate limit reached for today")]]
            /\ UNCHANGED issued
       ELSE /\ adzunaRequestsToday' = CounterAfterReset + 1
            /\ lastResetDate' = toDateString(now)
            /\ search' = [search EXCEPT ![r] = [req EXCEPT !.pc = "fetch", !.calls = @ + 1]]
            /\ issued' = [day |-> toDateString(now), n |-> IssuedToday + 1]
    /\ UNCHANGED <<now, env, applied, store, verify, cleanup, arrivals, fetched>>

\* a read that returns every stored listing, whatever its isValid
HitReadIgnoringValidity(r, storeOk) ==
    /\ search[r].pc = "hit_read"
    /\ LET s == search[r]
           jobId == s.jobIds[s.i]
           jobs == IF jobId \in DOMAIN cachedJobs
                   THEN Append(s.jobs, jobId)
                   ELSE s.jobs
       IN
       search' = [search EXCEPT ![r] =
         IF ~storeOk
         THEN [s EXCEPT !.pc = "done", !.jobs = <<>>, !.readOk = FALSE,
                        !.resp = HitResponse(s, <<>>)]
         ELSE IF s.i = Len(s.jobIds)
         THEN [s EXCEPT !.pc = "done", !.jobs = jobs, !.resp = HitResponse(s, jobs)]
         ELSE [s EXCEPT !.i = @ + 1, !.jobs = jobs]]
    /\ UNCHANGED <<now, env, applied, store, counter, verify, cleanup, arrivals, history>>

\* getCachedJobsByIds, lines 147-163: one getDoc per id; a throwing read empties
\* the whole result (lines 166-169)
HitRead(r, storeOk) ==
    /\ search[r].pc = "hit_read"
    /\ LET s == search[r]
           jobId == s.jobIds[s.i]
           jobs == IF jobId \in DOMAIN cachedJobs /\ cachedJobs[jobId].isValid
                   THEN Append(s.jobs, jobId)
                   ELSE s.jobs
       IN
       search' = [search EXCEPT ![r] =
         IF ~storeOk
         THEN [s EXCEPT !.pc = "done", !.jobs = <<>>, !.readOk = FALSE,
                        !.resp = HitResponse(s, <<>>)]
         ELSE IF s.i = Len(s.jobIds)
         THEN [s EXCEPT !.pc = "done", !.jobs = jobs, !.resp = HitResponse(s, jobs)]
         ELSE [s EXCEPT !.i = @ + 1, !.jobs = jobs]]
    /\ UNCHANGED <<now, env, applied, store, counter, verify, cleanup, arrivals, history>>

\* a route that caches whatever the provider answered, error pages included
ProviderFetchCachingErrors(r, outcome) ==
    /\ search[r].pc = "fetch"
    /\ search' = [search EXCEPT ![r] =
         IF outcome.kind = "throw"
         THEN [@ EXCEPT !.pc = "done", !.provider = NULL,
                 !.resp = ErrorResponse(500, "Internal server error")]
         ELSE [@ EXCEPT !.pc = "cache_write",
                 !.provider = outcome.status,
                 !.jobIds = IF outcome.status = 200 THEN outcome.results ELSE <<>>,
                 !.totalJobs = IF outcome.status = 200 THEN outcome.count ELSE 0,
                 !.totalPages = IF outcome.status = 200
                                THEN CeilDiv(outcome.count, RESULTS_PER_PAGE) ELSE 0,
                 !.stamp = now]]
    /\ fetched' =
         IF outcome.kind = "response" /\ outcome.status = 200
         THEN LET cacheKey == getSearchCacheKey(search[r].params) IN
              [ k \in DOMAIN fetched \cup {cacheKey} |->
                  IF k = cacheKey THEN now ELSE fetched[k] ]
         ELSE fetched
    /\ UNCHANGED <<now, env, applied, store, counter, verify, cleanup, arrivals, issued>>

\* lines 151-170: the provider answers (or the fetch throws into line 184)
ProviderFetch(r, outcome) ==
    /\ search[r].pc = "fetch"
    /\ search' = [search EXCEPT ![r] =
         IF outcome.kind = "throw"
         THEN [@ EXCEPT !.pc = "done", !.provider = NULL,
                 !.resp = ErrorResponse(500, "Internal server error")]
         ELSE IF outcome.status # 200
         THEN [@ EXCEPT !.pc = "done", !.provider = outcome.status,
                 !.resp = ErrorResponse(outcome.status, "Failed to fetch job listings")]
         ELSE [@ EXCEPT !.pc = "cache_write",
                 !.provider = outcome.status,
                 !.jobIds = outcome.results,
                 !.totalJobs = outcome.count,
                 !.totalPages = CeilDiv(outcome.count, RESULTS_PER_PAGE),
                 !.stamp = now]]
    /\ fetched' =
         IF outcome.kind = "response" /\ outcome.status = 200
         THEN LET cacheKey == getSearchCacheKey(search[r].params) IN
              [ k \in DOMAIN fetched \cup {cacheKey} |->
                  IF k = cacheKey THEN now ELSE fetched[k] ]
         ELSE fetched
    /\ UNCHANGED <<now, env, applied, store, counter, verify, cleanup, arrivals, issued>>

(***************************************************************************)
(* cleanupExpiredJobs calls                                                *)
(***************************************************************************)
CleanupSlots == {1, 2}

IdleCleanup == [pc |-> "idle", cutoff |-> 0, docs |-> {}]

FreeSlots == { c \in CleanupSlots : cleanup[c].pc = "idle" }

\* lines 176-191: the call computes the cut-off and issues the query
SpawnCleanup ==
    LET c == CHOOSE x \in FreeSlots : \A y \in FreeSlots : x <= y IN
    [cleanup EXCEPT ![c] = [pc |-> "query", cutoff |-> now - 20 * DAY, docs |-> {}]]

\* writes issued one by one in place of a batch: a failure after the first of
\* them leaves the search entry without its listings
CacheWriteOneByOne(r, storeOk) ==
    /\ search[r].pc = "cache_write"
    /\ FreeSlots # {}
    /\ cachedSearchResults' =
         SearchesAfterCache(search[r].params, search[r].jobIds,
                            search[r].totalJobs, search[r].totalPages,
                            search[r].stamp)
    /\ cachedJobs' = IF storeOk
                     THEN JobsAfterCache(search[r].jobIds, search[r].stamp)
                     ELSE cachedJobs
    /\ cleanup' = SpawnCleanup
    /\ search' = [search EXCEPT ![r] =
                    [@ EXCEPT !.pc = "done",
                              !.cached = IF storeOk THEN "committed" ELSE "failed",
                              !.resp = FreshResponse(search[r])]]
    /\ UNCHANGED <<now, env, applied, counter, verify, arrivals, history>>

\* a route that answers with an error when cacheSearchResults returns false
CacheWriteFailClosed(r, storeOk) ==
    /\ search[r].pc = "cache_write"
    /\ FreeSlots # {}     \* the model follows at most two sweeps at a time
    /\ IF storeOk
       THEN /\ cachedJobs' = JobsAfterCache(search[r].jobIds, search[r].stamp)
            /\ cachedSearchResults' =
                 SearchesAfterCache(search[r].params, search[r].jobIds,
                                    search[r].totalJobs, search[r].totalPages,
                                    search[r].stamp)
       ELSE UNCHANGED store
    /\ cleanup' = SpawnCleanup
    /\ search' = [search EXCEPT ![r] =
                    [@ EXCEPT !.pc = "done",
                              !.cached = IF storeOk THEN "committed" ELSE "failed",
                              !.resp = IF storeOk THEN FreshResponse(search[r])
                                      ELSE ErrorResponse(500, "Internal server error")]]
    /\ UNCHANGED <<now, env, applied, counter, verify, arrivals, history>>

\* lines 173-183: batch.commit() resolves or rejects, then the sweep is started
\* and the fetched page is returned
CacheWrite(r, storeOk) ==
    /\ search[r].pc = "cache_write"
    /\ FreeSlots # {}     \* the model follows at most two sweeps at a time
    /\ IF storeOk
       THEN /\ cachedJobs' = JobsAfterCache(search[r].jobIds, search[r].stamp)
            /\ cachedSearchResults' =
                 SearchesAfterCache(search[r].params, search[r].jobIds,
                                    search[r].totalJobs, search[r].totalPages,
                                    search[r].stamp)
       ELSE UNCHANGED store
    /\ cleanup' = SpawnCleanup
    /\ search' = [search EXCEPT ![r] =
                    [@ EXCEPT !.pc = "done",
                              !.cached = IF storeOk THEN "committed" ELSE "failed",
                              !.resp = FreshResponse(search[r])]]
    /\ UNCHANGED <<now, env, applied, counter, verify, arrivals, history>>

\* the caller has taken the response
FinishSearch(r) ==
    /\ search[r].pc = "done"
    /\ search' = [search EXCEPT ![r] = IdleSearch]
    /\ UNCHANGED <<now, env, applied, store, counter, verify, cleanup, arrivals, history>>

\* where("createdAt", "<", expirationTimestamp)
ExpiredJobs(cutoff) == { id \in DOMAIN cachedJobs : cachedJobs[id].createdAt < cutoff }

\* the documents the query may return under limit(batchSize): Firestore orders an
\* inequality query by the compared field
QuerySnapshots(cutoff, batchSize) ==
    LET all == ExpiredJobs(cutoff)
        n == IF Cardinality(all) < batchSize THEN Cardinality(all) ELSE batchSize
    IN { S \in SUBSET all :
           /\ Cardinality(S) = n
           /\ \A a \in S, b \in all \ S :
                cachedJobs[a].createdAt <= cachedJobs[b].createdAt }

\* lines 191-195 (and 205-208 when getDocs throws)
CleanupQuery(c, storeOk) ==
    /\ cleanup[c].pc = "query"
    /\ \E S \in QuerySnapshots(cleanup[c].cutoff, DEFAULT_BATCH_SIZE) :
         cleanup' = [cleanup EXCEPT ![c] =
                       IF storeOk /\ S # {}
                       THEN [@ EXCEPT !.pc = "commit", !.docs = S]
                       ELSE IdleCleanup]
    /\ UNCHANGED <<now, env, applied, store, counter, search, verify, arrivals, history>>

\* a sweep whose failure reaches the searches that are being answered
CleanupCommitFailingSearch(c, storeOk) ==
    /\ cleanup[c].pc = "commit"
    /\ cachedJobs' =
         IF storeOk
         THEN [ id \in DOMAIN cachedJobs \ cleanup[c].docs |-> cachedJobs[id] ]
         ELSE cachedJobs
    /\ cleanup' = [cleanup EXCEPT ![c] = IdleCleanup]
    /\ search' = IF storeOk THEN search
                 ELSE [ r \in SearchSlots |->
                          IF search[r].pc = "done"
                          THEN [search[r] EXCEPT
                                  !.resp = ErrorResponse(500, "Internal server error")]
                          ELSE search[r] ]
    /\ UNCHANGED <<now, env, applied, cachedSearchResults, counter, verify, arrivals, history>>

\* lines 198-204 (and 205-208 when the commit throws)
CleanupCommit(c, storeOk) ==
    /\ cleanup[c].pc = "commit"
    /\ cachedJobs' =
         IF storeOk
         THEN [ id \in DOMAIN cachedJobs \ cleanup[c].docs |-> cachedJobs[id] ]
         ELSE cachedJobs
    /\ cleanup' = [cleanup EXCEPT ![c] = IdleCleanup]
    /\ UNCHANGED <<now, env, applied, cachedSearchResults, counter, search, verify, arrivals, history>>

(***************************************************************************)
(* jobVerificationService and GET /api/jobs/verify/[id]                    *)
(***************************************************************************)
\* the requests the server holds at one time
VerifySlots == {1, 2}

\* what the HEAD probe of a redirect URL may do
ProbeOutcomes ==
    { [kind |-> "throw", status |-> 0] }
    \cup { [kind |-> "response", status |-> st] : st \in {200, 404, 410, 500} }

\* what the GET of the page may do; closed / open: the lowercased body holds a
\* closed phrase / an application-form indicator
PageOutcomes ==
    { [kind |-> "throw", status |-> 0, closed |-> FALSE, open |-> FALSE] }
    \cup { [kind |-> "response", status |-> st, closed |-> FALSE, open |-> FALSE] :
             st \in {404} }
    \cup { [kind |-> "response", status |-> 200, closed |-> c, open |-> o] :
             c \in BOOLEAN, o \in BOOLEAN }

\* response.ok
ResponseOk(status) == status >= 200 /\ status <= 299

\* the verdict without response.ok: only 404 and 410 count as gone
BasicIsValidIgnoringOk(status) == status \notin {404, 410}

\* response.ok && ![404, 410].includes(response.status)
BasicIsValid(status) == ResponseOk(status) /\ status \notin {404, 410}

\* the content analysis looking for an application form before it looks for
\* a closed phrase
AdvancedIsValidOpenFirst(outcome) ==
    IF ~ResponseOk(outcome.status) THEN FALSE
    ELSE IF outcome.open THEN TRUE
    ELSE FALSE

\* lines 325-379: the verdict of the content analysis
AdvancedIsValid(outcome) ==
    IF ~ResponseOk(outcome.status) THEN FALSE
    ELSE IF outcome.closed THEN FALSE
    ELSE outcome.open

\* the gate with <= in place of <
TooYoungToVerifyInclusive(jobAge) == jobAge <= TEN_DAYS_MS

\* jobAge < TEN_DAYS_MS
TooYoungToVerify(jobAge) == jobAge < TEN_DAYS_MS

\* the gate with >= in place of >
OldEnoughForAdvancedInclusive(jobAge) == jobAge >= FIFTEEN_DAYS_MS

\* jobAge !== Infinity && jobAge > FIFTEEN_DAYS_MS
OldEnoughForAdvanced(jobAge) == jobAge > FIFTEEN_DAYS_MS

NoOutcome == [kind |-> "none", status |-> 0, closed |-> FALSE, open |-> FALSE]

\* isValid, verifiedAt and verificationAttempts of a listing document
VerificationState(doc) == <<doc.isValid, doc.verifiedAt, doc.verificationAttempts>>

\* The request's position and locals; history kept with it: job, what
\* verifyJobById's read found; before, the listing's verification state at that
\* read; head and page, what the two outbound calls did; fetches, updates and
\* written, the outbound calls issued, the updateJobValidity calls made and the
\* updateDoc writes that reached the document.
IdleVerify ==
    [ pc |-> "idle", jobId |-> 0, jobAge |-> 0, stage |-> "none", isValid |-> TRUE,
      stamp |-> 0, attempts |-> 0, result |-> TRUE,
      job |-> "unread", before |-> <<TRUE, NULL, 0>>, head |-> NoOutcome,
      page |-> NoOutcome, fetches |-> 0, updates |-> 0, written |-> 0,
      resp |-> NoResponse ]

\* a request arrives; verify route lines 11-23
StartVerify(r, jobId) ==
    /\ verify[r].pc = "idle"
    /\ \A q \in VerifySlots : q < r => verify[q].pc # "idle"
    /\ verify' = [verify EXCEPT ![r] = [IdleVerify EXCEPT !.pc = "route_get", !.jobId = jobId]]
    /\ UNCHANGED <<now, env, applied, store, counter, search, cleanup, history>>

\* verify route lines 23-33
RouteGet(r, storeOk) ==
    /\ verify[r].pc = "route_get"
    /\ verify' = [verify EXCEPT ![r] =
         IF getCachedJob(verify[r].jobId, storeOk).found
         THEN [@ EXCEPT !.pc = "get"]
         ELSE [@ EXCEPT !.pc = "done",
                        !.resp = ErrorResponse(404, "Job not found in cache")]]
    /\ UNCHANGED <<now, env, applied, store, counter, search, cleanup, arrivals, history>>

\* verifyJobById has its verdict: back in the route, line 36
Verdict(v, result) == [v EXCEPT !.pc = "route_reread", !.result = result]

\* lines 418-431, entered with the verdict of the basic check
AfterBasic(v, isValidBasic) ==
    IF ~isValidBasic THEN Verdict(v, FALSE)
    ELSE IF OldEnoughForAdvanced(v.jobAge)
    THEN [v EXCEPT !.pc = "page", !.fetches = @ + 1]
    ELSE Verdict(v, isValidBasic)

\* updateJobValidity is entered: Timestamp.now() is taken and the getDoc issued
CallUpdate(v, stage, isValid) ==
    [v EXCEPT !.pc = "update_read", !.stage = stage, !.isValid = isValid,
              !.stamp = now, !.updates = @ + 1]

\* verifyJobById lines 393-416 with verifyJobValidity lines 275-288 (and, for a
\* listing without redirect URL, lines 276-277 and 313-315)
VerifyGet(r, storeOk) ==
    /\ verify[r].pc = "get"
    /\ LET job == getCachedJob(verify[r].jobId, storeOk) IN
       verify' = [verify EXCEPT ![r] =
         IF ~job.found THEN Verdict([@ EXCEPT !.job = "absent"], FALSE)
         ELSE LET jobAge == now - job.doc.createdAt
                  v == [@ EXCEPT !.jobAge = jobAge, !.job = "found",
                                 !.before = VerificationState(job.doc)]
              IN
              IF TooYoungToVerify(jobAge) THEN Verdict(v, TRUE)
              ELSE IF job.doc.redirect_url = "" THEN Verdict(v, TRUE)
              ELSE [v EXCEPT !.pc = "head", !.fetches = @ + 1]]
    /\ UNCHANGED <<now, env, applied, store, counter, search, cleanup, arrivals, history>>

\* the HEAD probe failing closed: a throw recorded as an invalid listing
BasicProbeFailClosed(r, outcome) ==
    /\ verify[r].pc = "head"
    /\ verify' = [verify EXCEPT ![r] =
         LET v == [@ EXCEPT !.head = [NoOutcome EXCEPT !.kind = outcome.kind,
                                                       !.status = outcome.status]]
         IN
         IF outcome.kind = "throw"
         THEN CallUpdate(v, "basic", FALSE)
         ELSE CallUpdate(v, "basic", BasicIsValid(outcome.status))]
    /\ UNCHANGED <<now, env, applied, store, counter, search, cleanup, arrivals, history>>

\* verifyJobValidity lines 283-304: the HEAD probe answers or throws
BasicProbe(r, outcome) ==
    /\ verify[r].pc = "head"
    /\ verify' = [verify EXCEPT ![r] =
         LET v == [@ EXCEPT !.head = [NoOutcome EXCEPT !.kind = outcome.kind,
                                                       !.status = outcome.status]]
         IN
         IF outcome.kind = "throw"
         THEN AfterBasic(v, TRUE)
         ELSE CallUpdate(v, "basic", BasicIsValid(outcome.status))]
    /\ UNCHANGED <<now, env, applied, store, counter, search, cleanup, arrivals, history>>

\* performAdvancedVerification lines 320-384: the page answers or the fetch throws
AdvancedFetch(r, outcome) ==
    /\ verify[r].pc = "page"
    /\ verify' = [verify EXCEPT ![r] =
         LET v == [@ EXCEPT !.page = outcome] IN
         IF outcome.kind = "throw"
         THEN Verdict(v, TRUE)
         ELSE CallUpdate(v, "advanced", AdvancedIsValid(outcome))]
    /\ UNCHANGED <<now, env, applied, store, counter, search, cleanup, arrivals, history>>

\* the caller of updateJobValidity goes on (it ignores the boolean returned)
AfterUpdate(v) ==
    IF v.stage = "basic" THEN AfterBasic(v, v.isValid) ELSE Verdict(v, v.isValid)

\* updateJobValidity line 256: the getDoc resolves or throws (lines 260-262)
UpdateRead(r, storeOk) ==
    /\ verify[r].pc = "update_read"
    /\ verify' = [verify EXCEPT ![r] =
         IF storeOk
         THEN [@ EXCEPT !.pc = "update_write", !.attempts = NextAttempts(verify[r].jobId)]
         ELSE AfterUpdate(@)]
    /\ UNCHANGED <<now, env, applied, store, counter, search, cleanup, arrivals, history>>

\* a write that creates the listing when it is missing, as setDoc with merge
\* would
UpdateWriteCreating(r, storeOk) ==
    /\ verify[r].pc = "update_write"
    /\ IF storeOk
       THEN /\ cachedJobs' =
                 [ id \in DOMAIN cachedJobs \cup {verify[r].jobId} |->
                     IF id = verify[r].jobId
                     THEN [ (IF id \in DOMAIN cachedJobs THEN cachedJobs[id]
                             ELSE NewJobDoc(id, verify[r].stamp))
                            EXCEPT !.isValid = verify[r].isValid,
                                   !.verifiedAt = verify[r].stamp,
                                   !.verificationAttempts = verify[r].attempts ]
                     ELSE cachedJobs[id] ]
            /\ verify' = [verify EXCEPT ![r] = AfterUpdate([@ EXCEPT !.written = @ + 1])]
       ELSE /\ cachedJobs' = cachedJobs
            /\ verify' = [verify EXCEPT ![r] = AfterUpdate(@)]
    /\ UNCHANGED <<now, env, applied, cachedSearchResults, counter, search, cleanup, arrivals, history>>

\* updateJobValidity lines 253-262: updateDoc resolves, or rejects (a missing
\* document included)
UpdateWrite(r, storeOk) ==
    /\ verify[r].pc = "update_write"
    /\ IF storeOk /\ verify[r].jobId \in DOMAIN cachedJobs
       THEN /\ cachedJobs' = JobsAfterUpdate(verify[r].jobId, verify[r].isValid,
                                             verify[r].stamp, verify[r].attempts)
            /\ verify' = [verify EXCEPT ![r] = AfterUpdate([@ EXCEPT !.written = @ + 1])]
       ELSE /\ cachedJobs' = cachedJobs
            /\ verify' = [verify EXCEPT ![r] = AfterUpdate(@)]
    /\ UNCHANGED <<now, env, applied, cachedSearchResults, counter, search, cleanup, arrivals, history>>

\* the envelope of the verify route, lines 38-47
VerifyResponse(v, updatedJob) ==
    [ status |-> 200, jobId |-> v.jobId, isValid |-> v.result,
      verifiedAt |-> IF updatedJob.found THEN updatedJob.doc.verifiedAt ELSE NULL,
      attempts |-> IF updatedJob.found THEN updatedJob.doc.verificationAttempts ELSE 0 ]

\* verify route lines 36-47
RouteReread(r, storeOk) ==
    /\ verify[r].pc = "route_reread"
    /\ verify' = [verify EXCEPT ![r] = [@ EXCEPT !.pc = "done",
                    !.resp = VerifyResponse(verify[r], getCachedJob(verify[r].jobId, storeOk))]]
    /\ UNCHANGED <<now, env, applied, store, counter, search, cleanup, arrivals, history>>

\* the caller has taken the response
FinishVerify(r) ==
    /\ verify[r].pc = "done"
    /\ verify' = [verify EXCEPT ![r] = IdleVerify]
    /\ UNCHANGED <<now, env, applied, store, counter, search, cleanup, arrivals, history>>

(***************************************************************************)
(* JobDetail (the listing's detail view)                                   *)
(***************************************************************************)
\* Math.floor((Date.now() - createdAt) / (1000 * 60 * 60 * 24))
AgeInDays(jobAge) == jobAge \div DAY

NoVerificationStatus == [known |-> FALSE]

\* verifyJob, lines 69-78: the state set from the route's response
StatusAfterVerify(previous, resp) ==
    IF ResponseOk(resp.status)
    THEN [known |-> TRUE, isValid |-> resp.isValid, verifiedAt |-> resp.verifiedAt,
          attempts |-> resp.attempts]
    ELSE previous

\* getVerificationBadge, for the listing `job` the view was opened with
getVerificationBadge(isVerifying, job, verificationStatus, ageDays) ==
    IF isVerifying THEN "Verifying"
    ELSE IF ~job.isValid THEN "May be expired"
    ELSE IF verificationStatus.known /\ verificationStatus.isValid THEN "Verified active"
    ELSE IF ageDays > 15 THEN "Older listing - Click to verify"
    ELSE "none"

(***************************************************************************)
(* appliedJobsService.ts                                                   *)
(***************************************************************************)
\* the calls the service runs at one time
ApplySlots == {1, 2}

UserIds == {1, 2}

IdleApply ==
    [ pc |-> "idle", op |-> "none", userId |-> 0, jobId |-> 0,
      call |-> 0,                \* the number of the call among all requests
      docId |-> NULL,            \* removeAppliedJob: querySnapshot.docs[0].id
      id |-> NULL,               \* addAppliedJob: the id returned, NULL for null
      removed |-> FALSE ]        \* removeAppliedJob: the boolean returned

\* the documents the query where userId == .. where jobId == .. returns
Matching(userId, jobId) ==
    { d \in DOMAIN appliedJobs :
        appliedJobs[d].userId = userId /\ appliedJobs[d].jobId = jobId }

\* isJobApplied: !querySnapshot.empty, and false when getDocs throws
isJobApplied(userId, jobId, storeOk) == storeOk /\ Matching(userId, jobId) # {}

\* a call enters addAppliedJob ("check") or removeAppliedJob ("query")
StartApply(r, op, userId, jobId) ==
    /\ apply[r].pc = "idle"
    /\ \A q \in ApplySlots : q < r => apply[q].pc # "idle"
    /\ arrivals < MaxRequests
    /\ arrivals' = arrivals + 1
    /\ apply' = [apply EXCEPT ![r] =
          [IdleApply EXCEPT !.pc = (IF op = "add" THEN "check" ELSE "query"),
                            !.op = op, !.userId = userId, !.jobId = jobId,
                            !.call = arrivals + 1]]
    /\ UNCHANGED <<now, env, appliedJobs, store, counter, search, verify, cleanup, history>>

\* addAppliedJob lines 58-63: the isJobApplied check resolves
AddCheck(r, storeOk) ==
    /\ apply[r].pc = "check"
    /\ apply' = [apply EXCEPT ![r] =
          IF isJobApplied(apply[r].userId, apply[r].jobId, storeOk)
          THEN [@ EXCEPT !.pc = "done", !.id = NULL]
          ELSE [@ EXCEPT !.pc = "write"]]
    /\ UNCHANGED <<now, env, appliedJobs, store, counter, search, verify, cleanup, arrivals, history>>

\* addAppliedJob lines 85-90: addDoc creates a document under a fresh id, or
\* throws and null is returned.  The fresh id is the call's number.
AddWrite(r, storeOk) ==
    /\ apply[r].pc = "write"
    /\ IF storeOk
       THEN /\ appliedJobs' =
                 [ d \in DOMAIN appliedJobs \cup {apply[r].call} |->
                     IF d = apply[r].call
                     THEN [userId |-> apply[r].userId, jobId |-> apply[r].jobId]
                     ELSE appliedJobs[d] ]
            /\ apply' = [apply EXCEPT ![r] = [@ EXCEPT !.pc = "done", !.id = apply[r].call]]
       ELSE /\ appliedJobs' = appliedJobs
            /\ apply' = [apply EXCEPT ![r] = [@ EXCEPT !.pc = "done", !.id = NULL]]
    /\ UNCHANGED <<now, env, store, counter, search, verify, cleanup, arrivals, history>>

\* removeAppliedJob lines 169-184: the query resolves; docs[0] is whichever
\* matching document the store lists first
RemoveQuery(r, storeOk) ==
    /\ apply[r].pc = "query"
    /\ IF storeOk /\ Matching(apply[r].userId, apply[r].jobId) # {}
       THEN \E d \in Matching(apply[r].userId, apply[r].jobId) :
               apply' = [apply EXCEPT ![r] = [@ EXCEPT !.pc = "delete", !.docId = d]]
       ELSE apply' = [apply EXCEPT ![r] = [@ EXCEPT !.pc = "done", !.removed = FALSE]]
    /\ UNCHANGED <<now, env, appliedJobs, store, counter, search, verify, cleanup, arrivals, history>>

\* removeAppliedJob lines 185-191: deleteDoc resolves (also for a document
\* already gone) or throws
RemoveDelete(r, storeOk) ==
    /\ apply[r].pc = "delete"
    /\ IF storeOk
       THEN /\ appliedJobs' = [ d \in DOMAIN appliedJobs \ {apply[r].docId} |-> appliedJobs[d] ]
            /\ apply' = [apply EXCEPT ![r] = [@ EXCEPT !.pc = "done", !.removed = TRUE]]
       ELSE /\ appliedJobs' = appliedJobs
            /\ apply' = [apply EXCEPT ![r] = [@ EXCEPT !.pc = "done", !.removed = FALSE]]
    /\ UNCHANGED <<now, env, store, counter, search, verify, cleanup, arrivals, history>>

\* the caller has the returned value
FinishApply(r) ==
    /\ apply[r].pc = "done"
    /\ apply' = [apply EXCEPT ![r] = IdleApply]
    /\ UNCHANGED <<now, env, appliedJobs, store, counter, search, verify, cleanup, arrivals, history>>

(***************************************************************************)
(* The environment                                                         *)
(***************************************************************************)
Tick(t) ==
    /\ t > now
    /\ now' = t
    /\ UNCHANGED <<env, applied, store, counter, search, verify, cleanup, arrivals, history>>

Init ==
    /\ now = 0
    /\ env \in BOOLEAN
    /\ cachedJobs = << >>
    /\ cachedSearchResults = << >>
    /\ adzunaRequestsToday = 0
    /\ lastResetDate = toDateString(0)
    /\ search = [r \in SearchSlots |-> IdleSearch]
    /\ verify = [r \in VerifySlots |-> IdleVerify]
    /\ cleanup = [c \in CleanupSlots |-> IdleCleanup]
    /\ arrivals = 0
    /\ appliedJobs = << >>
    /\ apply = [r \in ApplySlots |-> IdleApply]
    /\ issued = [day |-> toDateString(0), n |-> 0]
    /\ fetched = << >>

\* no request is in flight
NoRequest ==
    /\ \A r \in SearchSlots : search[r].pc = "idle"
    /\ \A r \in VerifySlots : verify[r].pc = "idle"

\* no request and no sweep is in flight
Quiet == NoRequest /\ FreeSlots = CleanupSlots

\* Under Spec the callers send one request at a time and MaxRequests requests
\* in all, and a request and the sweep it starts are short next to the clock's
\* steps.
ClockAdvances == Quiet /\ \E t \in ClockValues : Tick(t)

SearchArrives ==
    /\ NoRequest
    /\ FreeSlots # {}
    /\ arrivals < MaxRequests
    /\ arrivals' = arrivals + 1
    /\ \E r \in SearchSlots, params \in SearchParams, skipCache \in BOOLEAN :
         \* the results view offers a later page only once the page before it
         \* has been loaded
         /\ \/ params.page = 1
            \/ getSearchCacheKey([params EXCEPT !.page = @ - 1]) \in DOMAIN fetched
         /\ StartSearch(r, params, skipCache)

VerifyArrives ==
    /\ NoRequest
    /\ arrivals < MaxRequests
    /\ arrivals' = arrivals + 1
    /\ \E r \in VerifySlots, jobId \in JobIds : StartVerify(r, jobId)

Next ==
    \/ ClockAdvances
    \/ SearchArrives
    \/ \E r \in SearchSlots, storeOk \in BOOLEAN : Lookup(r, storeOk)
    \/ \E r \in SearchSlots, storeOk \in BOOLEAN : HitRead(r, storeOk)
    \/ \E r \in SearchSlots, outcome \in ProviderOutcomes : ProviderFetch(r, outcome)
    \/ \E r \in SearchSlots, storeOk \in BOOLEAN : CacheWrite(r, storeOk)
    \/ \E r \in SearchSlots : FinishSearch(r)
    \/ \E c \in CleanupSlots, storeOk \in BOOLEAN : CleanupQuery(c, storeOk)
    \/ \E c \in CleanupSlots, storeOk \in BOOLEAN : CleanupCommit(c, storeOk)
    \/ VerifyArrives
    \/ \E r \in VerifySlots, storeOk \in BOOLEAN : RouteGet(r, storeOk)
    \/ \E r \in VerifySlots, storeOk \in BOOLEAN : VerifyGet(r, storeOk)
    \/ \E r \in VerifySlots, outcome \in ProbeOutcomes : BasicProbe(r, outcome)
    \/ \E r \in VerifySlots, outcome \in PageOutcomes : AdvancedFetch(r, outcome)
    \/ \E r \in VerifySlots, storeOk \in BOOLEAN : UpdateRead(r, storeOk)
    \/ \E r \in VerifySlots, storeOk \in BOOLEAN : UpdateWrite(r, storeOk)
    \/ \E r \in VerifySlots, storeOk \in BOOLEAN : RouteReread(r, storeOk)
    \/ \E r \in VerifySlots : FinishVerify(r)

Spec == Init /\ [][Next]_vars

(***************************************************************************)
(* Properties of the cache and of verification, stated for Spec.           *)
(***************************************************************************)

\* C1: a cache write of a search leaves the verification state (isValid,
\* verifiedAt, verificationAttempts) of every listing that was already stored
\* as it was just before the write.
CacheWritePreservesVerificationState ==
    [][ \A r \in SearchSlots :
          (search[r].pc = "cache_write" /\ search'[r].pc = "done")
          => \A id \in DOMAIN cachedJobs \cap DOMAIN cachedJobs' :
               VerificationState(cachedJobs'[id]) = VerificationState(cachedJobs[id])
      ]_vars

\* C2: fail-open.  updateJobValidity is called once for each outbound call that
\* got a response and never for one that threw; while the HEAD probe has thrown
\* and the page has not been answered, the stored verification state of the
\* listing is the one the verification's read found; and after a page fetch
\* that threw it is the one the basic check before it left (the one found if
\* the HEAD probe threw too, else valid, stamped by the basic check, with one
\* attempt more).
FailOpenOnProbeThrow ==
    \A r \in VerifySlots :
      LET v == verify[r] IN
      /\ v.updates = (IF v.head.kind = "response" THEN 1 ELSE 0)
                     + (IF v.page.kind = "response" THEN 1 ELSE 0)
      /\ v.written <= v.updates
      /\ (v.head.kind = "throw" /\ v.page.kind # "response"
            /\ v.jobId \in DOMAIN cachedJobs)
         => VerificationState(cachedJobs[v.jobId]) = v.before
      /\ (v.head.kind = "response" /\ v.page.kind = "throw"
            /\ v.jobId \in DOMAIN cachedJobs)
         => VerificationState(cachedJobs[v.jobId]) =
              IF v.written = 1 THEN <<TRUE, v.stamp, v.before[3] + 1>> ELSE v.before

\* C2: a verification of a listing older than 15 days has ended with the HEAD
\* probe and the page fetch both thrown.
BothProbesThrew ==
    \E r \in VerifySlots :
      /\ verify[r].pc = "done"
      /\ verify[r].resp.status = 200
      /\ verify[r].head.kind = "throw"
      /\ verify[r].page.kind = "throw"

\* C3: a verification that finds its listing younger than 10 days issues no
\* outbound call, calls no update, leaves the stored verification state as
\* found and reports valid; one that finds it 10 days old or older, with a
\* redirect URL, issues the HEAD probe.
VerificationAgeGate ==
    \A r \in VerifySlots :
      LET v == verify[r] IN
      v.job = "found" =>
        IF v.jobAge < 10 * DAY
        THEN /\ v.fetches = 0
             /\ v.head.kind = "none" /\ v.page.kind = "none"
             /\ v.updates = 0 /\ v.written = 0
             /\ v.pc \in {"route_reread", "done"}
             /\ v.result = TRUE
             /\ v.jobId \in DOMAIN cachedJobs
                => VerificationState(cachedJobs[v.jobId]) = v.before
        ELSE redirect_url(v.jobId) # ""
             => v.fetches >= 1 /\ (v.pc = "head" \/ v.head.kind # "none")

\* C3: a verification of a listing aged ten days less a second has ended.
VerifiedJustUnderTenDays ==
    \E r \in VerifySlots :
      /\ verify[r].pc = "done"
      /\ verify[r].job = "found"
      /\ verify[r].jobAge = 10 * DAY - 1
      /\ redirect_url(verify[r].jobId) # ""

\* C4: a request to the verify endpoint for a stored listing with a redirect
\* URL issues the HEAD probe whatever the listing's age.
OnDemandBypassesAgeGate ==
    \A r \in VerifySlots :
      LET v == verify[r] IN
      (v.pc = "done" /\ v.job = "found" /\ redirect_url(v.jobId) # "")
      => v.head.kind # "none"

\* C5: when the HEAD probe of a verification is answered with a status outside
\* 200..299, the page is never fetched, updateJobValidity is called once with
\* isValid false, the verdict is false and, when the update reaches the stored
\* listing, its isValid is false and its attempt count is the one found plus 1.
NonSuccessProbeMarksInvalid ==
    \A r \in VerifySlots :
      LET v == verify[r] IN
      (v.head.kind = "response" /\ v.head.status \notin 200..299) =>
        /\ v.jobAge >= 10 * DAY
        /\ v.fetches = 1 /\ v.page.kind = "none" /\ v.pc # "page"
        /\ v.updates = 1 /\ v.isValid = FALSE
        /\ v.pc \in {"route_reread", "done"} => v.result = FALSE
        /\ (v.written = 1 /\ v.jobId \in DOMAIN cachedJobs) =>
             /\ cachedJobs[v.jobId].isValid = FALSE
             /\ cachedJobs[v.jobId].verificationAttempts = v.before[3] + 1
             /\ cachedJobs[v.jobId].verifiedAt = v.stamp

\* C5: a verification of a listing older than 15 days whose HEAD probe was
\* answered 410 has ended, its update written.
GoneListingMarkedInvalid ==
    \E r \in VerifySlots :
      /\ verify[r].pc = "done"
      /\ verify[r].head.status = 410
      /\ verify[r].jobAge > 15 * DAY
      /\ verify[r].written = 1
      /\ verify[r].jobId \in DOMAIN cachedJobs

\* C6 as stated: after a HEAD probe answered with success, the page is fetched
\* if and only if the listing's age is at least 15 days.
AdvancedIffAtLeastFifteenDays ==
    \A r \in VerifySlots :
      LET v == verify[r] IN
      (v.pc \in {"route_reread", "done"} /\ v.head.kind = "response"
         /\ v.head.status \in 200..299)
      => (v.page.kind # "none" <=> v.jobAge >= 15 * DAY)

\* C6 amended: after a HEAD probe answered with success, the page is fetched
\* if and only if the listing's age is more than 15 days.
AdvancedIffOlderThanFifteenDays ==
    \A r \in VerifySlots :
      LET v == verify[r] IN
      (v.pc \in {"route_reread", "done"} /\ v.head.kind = "response"
         /\ v.head.status \in 200..299)
      => (v.page.kind # "none" <=> v.jobAge > 15 * DAY)

\* C6: a verification of a listing aged exactly 15 days has ended after a
\* successful HEAD probe and no page fetch.
ExactlyFifteenDaysNoAdvanced ==
    \E r \in VerifySlots :
      /\ verify[r].pc = "done"
      /\ verify[r].head.kind = "response"
      /\ verify[r].head.status = 200
      /\ verify[r].jobAge = 15 * DAY
      /\ verify[r].page.kind = "none"

\* C7: when every outbound call of a verification threw, the badge the detail
\* view shows after taking the response is the badge it showed before, and the
\* isValid of the response is the stored isValid the verification found.
VerificationFailuresInvisible ==
    \A r \in VerifySlots :
      LET v == verify[r]
          job == [isValid |-> v.before[1]]
          days == AgeInDays(v.jobAge)
      IN
      (v.pc = "done" /\ v.resp.status = 200 /\ v.head.kind = "throw"
         /\ v.page.kind \in {"none", "throw"})
      => /\ getVerificationBadge(FALSE, job,
                StatusAfterVerify(NoVerificationStatus, v.resp), days)
            = getVerificationBadge(FALSE, job, NoVerificationStatus, days)
         /\ v.resp.isValid = v.before[1]

\* C8: at every step, a stored listing or search result written at T is still
\* returned by the read when the clock is at most T + 20 days - 1 second, one
\* the clock has passed by T + 20 days + 1 second or more is reported absent,
\* and a step that only reads leaves both collections as they are.
ExpiryBoundaryAtRead ==
    [][ /\ \A id \in DOMAIN cachedJobs :
             now' <= cachedJobs[id].createdAt + 20 * DAY - 1
             => (getCachedJob(id, TRUE).found)'
        /\ \A id \in DOMAIN cachedJobs' :
             now' >= cachedJobs'[id].createdAt + 20 * DAY + 1
             => ~(getCachedJob(id, TRUE).found)'
        /\ \A k \in DOMAIN cachedSearchResults :
             now' <= cachedSearchResults[k].createdAt + 20 * DAY - 1
             => (getCachedSearchResults(cachedSearchResults[k].params, TRUE).found)'
        /\ \A k \in DOMAIN cachedSearchResults' :
             now' >= cachedSearchResults'[k].createdAt + 20 * DAY + 1
             => ~(getCachedSearchResults(cachedSearchResults[k].params, TRUE).found)'
        /\ ( \/ \E r \in VerifySlots :
                  /\ verify[r].pc \in {"route_get", "get", "route_reread"}
                  /\ verify'[r] # verify[r]
             \/ \E r \in SearchSlots :
                  /\ search[r].pc \in {"lookup", "hit_read"}
                  /\ search'[r] # search[r] )
           => store' = store
      ]_vars

QuotaClockValues == { DAY - 1, DAY, 2 * DAY }

QuotaParams == { p \in SearchParams : p.page = 1 }

QuotaOutcomes == { o \in ProviderOutcomes : o.kind = "throw" \/ o.status # 200 }

InitQuota == Init /\ env = TRUE

QuotaClockAdvances == \E t \in QuotaClockValues : Tick(t)

QuotaSearchArrives ==
    /\ \E r \in SearchSlots, params \in QuotaParams, skipCache \in BOOLEAN :
         StartSearch(r, params, skipCache)
    /\ UNCHANGED arrivals

NextQuota ==
    \/ QuotaClockAdvances
    \/ QuotaSearchArrives
    \/ \E r \in SearchSlots, storeOk \in BOOLEAN : Lookup(r, storeOk)
    \/ \E r \in SearchSlots, outcome \in QuotaOutcomes : ProviderFetch(r, outcome)
    \/ \E r \in SearchSlots : FinishSearch(r)

SpecQuota == InitQuota /\ [][NextQuota]_vars

\* C10: at every step, the provider requests issued in the local day of the
\* clock number at most 90; the counter, once it has been brought to the day of
\* the clock, equals that number; a cache-miss search that finds 90 issued in
\* the day is answered 429 and issues none; and one that finds fewer issues
\* its request, which counts as one more of the day.
DailyBudgetIsHardCeiling ==
    [][ /\ IssuedToday' <= 90
        /\ lastResetDate' = toDateString(now') => adzunaRequestsToday' = IssuedToday'
        /\ \A r \in SearchSlots :
             (search[r].pc = "lookup" /\ search'[r].pc # "lookup")
             => IF IssuedToday >= 90
                THEN /\ search'[r].pc = "done"
                     /\ search'[r].resp.status = 429
                     /\ search'[r].calls = 0
                     /\ issued' = issued
                ELSE /\ search'[r].pc = "fetch"
                     /\ search'[r].calls = 1
                     /\ IssuedToday' = IssuedToday + 1
                     /\ adzunaRequestsToday' = IssuedToday'
      ]_vars

\* C10: with 90 provider requests issued in the day, a further search has been
\* answered 429; and it is the second day on which the budget ran out.
BudgetExhaustedRejected ==
    \E r \in SearchSlots :
      /\ search[r].pc = "done"
      /\ search[r].resp.status = 429
      /\ IssuedToday = 90
      /\ toDateString(now) = 1

(***************************************************************************)
(* Error handling of the search route                                      *)
(***************************************************************************)
ProviderErrors == { o.status : o \in { x \in ProviderOutcomes : x.kind = "response" } } \ {200}

\* C11: a search that the provider answers with a non-success status ends with
\* that status and "Failed to fetch job listings" as its response, without ever
\* having run cacheSearchResults and without starting a sweep; and no step of a
\* search that has not run cacheSearchResults changes the search-results table
\* or the listings table.
ProviderErrorLeavesCacheUntouched ==
    [][\A r \in SearchSlots :
         /\ (search'[r] # search[r] /\ search'[r].cached = "none") => store' = store
         /\ (search[r].pc = "fetch" /\ search'[r].provider \in ProviderErrors) =>
               /\ search'[r].pc = "done"
               /\ search'[r].resp =
                    ErrorResponse(search'[r].provider, "Failed to fetch job listings")
               /\ cleanup' = cleanup
         /\ (search[r].provider \in ProviderErrors /\ search'[r].pc # "idle") =>
               search'[r] = search[r]]_vars

ProviderErrorWithWarmCache ==
    \E r \in SearchSlots :
       /\ search[r].pc = "done"
       /\ search[r].provider \in ProviderErrors
       /\ search[r].resp.status = search[r].provider
       /\ DOMAIN cachedSearchResults # {}
       /\ DOMAIN cachedJobs # {}

(***************************************************************************)
(* Searches without provider credentials.  process.env is read by every    *)
(* request (route.ts lines 73-75), so the credentials the route sees are   *)
(* those of the moment of the request; skip_cache and the one move of the  *)
(* clock, past the 20 days of what was cached first, give the misses.      *)
(***************************************************************************)
ExpiryClockValues == { 20 * DAY + 1 }

ExpiryClockAdvances == Quiet /\ \E t \in ExpiryClockValues : Tick(t)

ConfigParams == { p \in SearchParams : p.page = 1 }

ConfigOutcomes ==
    { o \in ProviderOutcomes : o.kind = "response" /\ Len(o.results) <= 1 }

EnvChanges ==
    /\ Quiet
    /\ env' = ~env
    /\ UNCHANGED <<now, applied, store, counter, search, verify, cleanup, arrivals, history>>

ConfigSearchArrives ==
    /\ NoRequest
    /\ FreeSlots # {}
    /\ \E r \in SearchSlots, params \in ConfigParams, skipCache \in BOOLEAN :
         StartSearch(r, params, skipCache)
    /\ UNCHANGED arrivals

NextConfig ==
    \/ ExpiryClockAdvances
    \/ EnvChanges
    \/ ConfigSearchArrives
    \/ \E r \in SearchSlots, storeOk \in BOOLEAN : Lookup(r, storeOk)
    \/ \E r \in SearchSlots, storeOk \in BOOLEAN : HitRead(r, storeOk)
    \/ \E r \in SearchSlots, outcome \in ConfigOutcomes : ProviderFetch(r, outcome)
    \/ \E r \in SearchSlots, storeOk \in BOOLEAN : CacheWrite(r, storeOk)
    \/ \E r \in SearchSlots : FinishSearch(r)
    \/ \E c \in CleanupSlots, storeOk \in BOOLEAN : CleanupQuery(c, storeOk)
    \/ \E c \in CleanupSlots, storeOk \in BOOLEAN : CleanupCommit(c, storeOk)

SpecConfig == Init /\ [][NextConfig]_vars

ConfigError == ErrorResponse(500, "API credentials not configured")

\* C12: a search that meets missing credentials after its cache lookup missed
\* (no entry, skip_cache, or a failed read) ends at once with the configuration
\* error, whatever the daily counter says: it has issued no provider request,
\* the counter, the record of issued requests, both cache tables and the sweeps
\* are as they were, and all the request does afterwards is return.  A search
\* whose lookup found an entry is served from the cache without credentials.
ConfigErrorBeforeQuota ==
    [][\A r \in SearchSlots :
         /\ (search[r].pc = "lookup" /\ search'[r].pc # "lookup" /\ ~env) =>
              IF /\ ~search[r].skipCache
                 /\ search'[r].lookupOk
                 /\ getCachedSearchResults(search[r].params, TRUE).found
              THEN /\ search'[r].pc \in {"hit_read", "done"}
                   /\ search'[r].jobIds =
                        getCachedSearchResults(search[r].params, TRUE).doc.jobIds
                   /\ search'[r].pc = "done" =>
                        (search'[r].resp.status = 200 /\ search'[r].resp.fromCache)
              ELSE /\ search'[r].pc = "done"
                   /\ search'[r].resp = ConfigError
                   /\ search'[r].calls = 0
                   /\ counter' = counter
                   /\ issued' = issued
                   /\ store' = store
                   /\ cleanup' = cleanup
         /\ (search[r].pc = "done" /\ search[r].resp = ConfigError) =>
              (search'[r] = search[r] \/ search'[r] = IdleSearch)
         /\ (search[r].pc = "hit_read" /\ search'[r].pc = "done") =>
              (search'[r].resp.status = 200 /\ search'[r].resp.fromCache)
      ]_vars

ConfigErrorWithBudgetExhausted ==
    \E r \in SearchSlots :
       /\ search[r].pc = "done"
       /\ search[r].resp = ConfigError
       /\ ~env
       /\ adzunaRequestsToday = DAILY_LIMIT
       /\ IssuedToday = DAILY_LIMIT

\* reachability of the other branch of C12: without credentials, a search has
\* been served its listings from the cache
CacheHitWithoutCredentials ==
    \E r \in SearchSlots :
       /\ search[r].pc = "done"
       /\ search[r].resp.status = 200
       /\ search[r].resp.fromCache
       /\ search[r].resp.jobs # <<>>
       /\ ~env

(***************************************************************************)
(* cacheSearchResults failing after a successful fetch                     *)
(***************************************************************************)
\* C13: a search whose batch write of the search result and its listings
\* failed is not answered with a success response.
FailedBatchNotReportedAsSuccess ==
    \A r \in SearchSlots :
       (search[r].pc = "done" /\ search[r].cached = "failed") =>
          search[r].resp.status # 200

\* C14: the step in which cacheSearchResults comes back answers the search with
\* status 200 and the listings, the total count and the total pages that the
\* provider returned, whether the batch was committed or not; a batch that
\* failed has written nothing.
FailedCacheWriteStillAnswers ==
    [][\A r \in SearchSlots :
         (search[r].pc = "cache_write" /\ search'[r].pc # "cache_write") =>
            /\ search'[r].pc = "done"
            /\ search'[r].resp =
                 [ status |-> 200, jobs |-> search[r].jobIds,
                   totalJobs |-> search[r].totalJobs,
                   totalPages |-> search[r].totalPages,
                   currentPage |-> search[r].params.page, fromCache |-> FALSE ]
            /\ search[r].provider = 200
            /\ search'[r].cached \in {"committed", "failed"}
            /\ search'[r].cached = "failed" => store' = store]_vars

FetchedPageReturnedAfterFailedWrite ==
    \E r \in SearchSlots :
       /\ search[r].pc = "done"
       /\ search[r].cached = "failed"
       /\ search[r].resp.status = 200
       /\ search[r].resp.jobs = <<1, 2>>
       /\ search[r].resp.totalJobs = 2
       /\ getSearchCacheKey(search[r].params) \notin DOMAIN cachedSearchResults

(***************************************************************************)
(* The store failing under the search-cache lookup                         *)
(***************************************************************************)
\* C15: a search whose read of the search-results table failed goes on as a
\* miss does: without credentials it gets the configuration error, with 90
\* requests issued in the day the rate-limit error, and otherwise it issues
\* its provider request; it is never answered from the cache, it is answered
\* "Internal server error" only when the provider fetch itself threw, and when
\* the provider answers 200 the search is answered 200 with the provider's
\* listings.
LookupFailureIsAMiss ==
    [][\A r \in SearchSlots :
         /\ (search[r].pc = "lookup" /\ search'[r].pc # "lookup"
                                     /\ ~search'[r].lookupOk) =>
               IF ~env
               THEN search'[r].pc = "done" /\ search'[r].resp = ConfigError
               ELSE IF IssuedToday >= DAILY_LIMIT
               THEN /\ search'[r].pc = "done"
                    /\ search'[r].resp =
                         ErrorResponse(429, "API rate limit reached for today")
               ELSE /\ search'[r].pc = "fetch"
                    /\ search'[r].calls = 1
                    /\ IssuedToday' = IssuedToday + 1
         /\ (~search'[r].lookupOk /\ search'[r].pc = "done") =>
               /\ search'[r].resp.status # 200 =>
                     /\ search'[r].resp.error = "Internal server error" =>
                           search'[r].provider = NULL
                     /\ search'[r].provider # 200
               /\ search'[r].resp.status = 200 =>
                     /\ ~search'[r].resp.fromCache
                     /\ search'[r].provider = 200
                     /\ search'[r].resp.jobs = search'[r].jobIds
      ]_vars

SearchAnsweredThroughStoreOutage ==
    \E r \in SearchSlots :
       /\ search[r].pc = "done"
       /\ ~search[r].lookupOk
       /\ search[r].lastCommit # NULL
       /\ search[r].cached = "failed"
       /\ search[r].resp.status = 200
       /\ search[r].resp.jobs # <<>>

(***************************************************************************)
(* Cache keys.  The route takes title, location, job_type and page from    *)
(* the query string as they come (route.ts lines 29-32), so a title or a   *)
(* location may hold "_" and the page may be 0.                            *)
(***************************************************************************)
KeyParams ==
    { [title |-> t, location |-> l, job_type |-> "", page |-> pg] :
        t \in {"dev", "dev_"}, l \in {"", "_"}, pg \in {0, 1} }

KeyOutcomes ==
    { o \in ProviderOutcomes : o.kind = "response" /\ o.status = 200 }

KeySearchArrives ==
    /\ NoRequest
    /\ FreeSlots # {}
    /\ arrivals < MaxRequests
    /\ arrivals' = arrivals + 1
    /\ \E r \in SearchSlots, params \in KeyParams : StartSearch(r, params, FALSE)

NextKey ==
    \/ ExpiryClockAdvances
    \/ KeySearchArrives
    \/ \E r \in SearchSlots : Lookup(r, TRUE)
    \/ \E r \in SearchSlots : HitRead(r, TRUE)
    \/ \E r \in SearchSlots, outcome \in KeyOutcomes : ProviderFetch(r, outcome)
    \/ \E r \in SearchSlots : CacheWrite(r, TRUE)
    \/ \E r \in SearchSlots : FinishSearch(r)
    \/ \E c \in CleanupSlots : CleanupQuery(c, TRUE)
    \/ \E c \in CleanupSlots : CleanupCommit(c, TRUE)

SpecKey == Init /\ [][NextKey]_vars

SameFields(p1, p2) ==
    /\ p1.title = p2.title
    /\ p1.location = p2.location
    /\ p1.job_type = p2.job_type
    /\ p1.page = p2.page

\* C16: getSearchCacheKey gives two parameter tuples the same key if and only
\* if their title, location, job_type and page are equal field for field: the
\* parameters of a search and the parameters an entry was stored with have the
\* same key exactly when they are the same tuple.
KeysIdentifyParameters ==
    \A r \in SearchSlots : \A k \in DOMAIN cachedSearchResults :
       search[r].pc # "idle" =>
          ( getSearchCacheKey(search[r].params)
              = getSearchCacheKey(cachedSearchResults[k].params)
            <=> SameFields(search[r].params, cachedSearchResults[k].params) )

(***************************************************************************)
(* Requests racing each other.  Every await of a handler lets the other    *)
(* requests, the sweeps and the clock move: here searches of one key and   *)
(* verifications of one listing run side by side, the store answers its    *)
(* reads, a batch of cacheSearchResults may fail, and the clock may pass   *)
(* the 20 days of a listing at any point.                                  *)
(***************************************************************************)
RaceClockValues == { 20 * DAY - 1, 20 * DAY + 1 }

RaceParams == { p \in SearchParams : p.page = 1 }

RaceOutcomes ==
    { o \in ProviderOutcomes :
        o.kind = "response" /\ o.status = 200 /\ Len(o.results) <= 1 }

RaceProbeOutcomes ==
    { o \in ProbeOutcomes : o.kind = "response" /\ o.status \in {200, 410} }

RacePageOutcomes ==
    { o \in PageOutcomes : o.kind = "response" /\ o.status = 200 /\ ~o.open }

RaceClockAdvances == \E t \in RaceClockValues : Tick(t)

RaceSearchArrives ==
    /\ arrivals < MaxRequests
    /\ arrivals' = arrivals + 1
    /\ \E r \in SearchSlots, params \in RaceParams : StartSearch(r, params, FALSE)

RaceVerifyArrives ==
    /\ arrivals < MaxRequests
    /\ arrivals' = arrivals + 1
    /\ \E r \in VerifySlots : StartVerify(r, 1)

NextRace ==
    \/ RaceClockAdvances
    \/ RaceSearchArrives
    \/ \E r \in SearchSlots : Lookup(r, TRUE)
    \/ \E r \in SearchSlots : HitRead(r, TRUE)
    \/ \E r \in SearchSlots, outcome \in RaceOutcomes : ProviderFetch(r, outcome)
    \/ \E r \in SearchSlots, storeOk \in BOOLEAN : CacheWrite(r, storeOk)
    \/ \E r \in SearchSlots : FinishSearch(r)
    \/ \E c \in CleanupSlots : CleanupQuery(c, TRUE)
    \/ \E c \in CleanupSlots : CleanupCommit(c, TRUE)
    \/ RaceVerifyArrives
    \/ \E r \in VerifySlots : RouteGet(r, TRUE)
    \/ \E r \in VerifySlots : VerifyGet(r, TRUE)
    \/ \E r \in VerifySlots, outcome \in RaceProbeOutcomes : BasicProbe(r, outcome)
    \/ \E r \in VerifySlots, outcome \in RacePageOutcomes : AdvancedFetch(r, outcome)
    \/ \E r \in VerifySlots : UpdateRead(r, TRUE)
    \/ \E r \in VerifySlots : UpdateWrite(r, TRUE)
    \/ \E r \in VerifySlots : RouteReread(r, TRUE)
    \/ \E r \in VerifySlots : FinishVerify(r)

SpecRace == InitQuota /\ [][NextRace]_vars

\* the search whose cacheSearchResults commits in this step
Commits(r) == search[r].pc = "cache_write" /\ search'[r].cached = "committed"

\* C17: the search-results table changes only when a cacheSearchResults
\* commits, and a commit leaves under its key one entry, holding the listing
\* ids, totals and timestamp of the committing search whatever was stored
\* there before and whichever of two racing searches fetched first; the other
\* keys keep their entries, and a getCachedSearchResults for the parameters
\* right after the commit returns what was committed.
LastCommitWins ==
    [][ /\ cachedSearchResults' # cachedSearchResults => \E r \in SearchSlots : Commits(r)
        /\ \A r \in SearchSlots : Commits(r) =>
             LET k == getSearchCacheKey(search[r].params)
                 written == [ params |-> search[r].params,
                              jobIds |-> search[r].jobIds,
                              totalJobs |-> search[r].totalJobs,
                              totalPages |-> search[r].totalPages,
                              createdAt |-> search[r].stamp ]
             IN /\ DOMAIN cachedSearchResults' = DOMAIN cachedSearchResults \cup {k}
                /\ cachedSearchResults'[k] = written
                /\ \A j \in DOMAIN cachedSearchResults \ {k} :
                      cachedSearchResults'[j] = cachedSearchResults[j]
                /\ now' <= search[r].stamp + DEFAULT_EXPIRATION_MS =>
                      (getCachedSearchResults(search[r].params, TRUE))'
                         = [found |-> TRUE, doc |-> written]
      ]_vars

EarlierFetchCommittedLast ==
    \E r1, r2 \in SearchSlots :
       /\ search[r1].pc = "done" /\ search[r1].cached = "committed"
       /\ search[r2].pc = "done" /\ search[r2].cached = "committed"
       /\ search[r1].params = search[r2].params
       /\ search[r1].jobIds # search[r2].jobIds
       /\ search[r1].stamp < search[r2].stamp
       /\ LET k == getSearchCacheKey(search[r1].params) IN
          /\ k \in DOMAIN cachedSearchResults
          /\ cachedSearchResults[k].jobIds = search[r1].jobIds
          /\ cachedSearchResults[k].createdAt = search[r1].stamp

(***************************************************************************)
(* A search entry and its listings as one unit                             *)
(***************************************************************************)
\* C18: the batch of cacheSearchResults takes effect as one unit.  A commit
\* stores the search entry and every listing the entry names in the same step
\* and with the same timestamp; a batch that fails changes neither table; no
\* other step changes the search-results table, adds a listing or changes a
\* listing's timestamp; and a listing leaves the table only by the commit of a
\* sweep.  So at no point of any interleaving does an entry name a listing
\* that its commit has not written.
BatchCommittedAsOneUnit ==
    [][ /\ \A r \in SearchSlots :
             (search[r].pc = "cache_write" /\ search'[r].pc # "cache_write") =>
                IF search'[r].cached = "committed"
                THEN LET k == getSearchCacheKey(search[r].params) IN
                     /\ k \in DOMAIN cachedSearchResults'
                     /\ cachedSearchResults'[k].jobIds = search[r].jobIds
                     /\ \A i \in 1..Len(search[r].jobIds) :
                           /\ search[r].jobIds[i] \in DOMAIN cachedJobs'
                           /\ cachedJobs'[search[r].jobIds[i]].createdAt
                                = cachedSearchResults'[k].createdAt
                ELSE store' = store
        /\ cachedSearchResults' # cachedSearchResults =>
             \E r \in SearchSlots : Commits(r)
        /\ \A id \in DOMAIN cachedJobs' :
             (id \notin DOMAIN cachedJobs
                \/ cachedJobs'[id].createdAt # cachedJobs[id].createdAt) =>
             \E r \in SearchSlots :
                Commits(r) /\ id \in Range(search[r].jobIds)
        /\ DOMAIN cachedJobs \ DOMAIN cachedJobs' # {} =>
             \E c \in CleanupSlots :
                /\ cleanup[c].pc = "commit"
                /\ cleanup'[c].pc = "idle"
                /\ DOMAIN cachedJobs \ DOMAIN cachedJobs' \subseteq cleanup[c].docs
      ]_vars

ReaderBesideFailedAndCommittedBatch ==
    \E r1, r2 \in SearchSlots :
       /\ search[r1].pc = "hit_read"
       /\ search[r2].pc = "done" /\ search[r2].cached = "failed"
       /\ search[r2].jobIds = <<1>>
       /\ 1 \in DOMAIN cachedJobs
       /\ LET k == getSearchCacheKey(search[r1].params) IN
          /\ k \in DOMAIN cachedSearchResults
          /\ cachedSearchResults[k].jobIds = <<1>>
          /\ cachedSearchResults[k].createdAt = cachedJobs[1].createdAt
          /\ cachedSearchResults[k].createdAt < search[r2].stamp

(***************************************************************************)
(* getCachedJobsByIds                                                      *)
(***************************************************************************)
\* C19: each read of getCachedJobsByIds that reaches the store appends the id
\* it reads to the result exactly when the listing is stored with isValid true,
\* takes the ids in the order of the entry, and writes nothing: a listing with
\* isValid false is left out of the page and stays stored.  After the last id
\* the page returned is the list so collected.
ListingsReadInOrderAndFiltered ==
    [][\A r \in SearchSlots :
         (search[r].pc = "hit_read" /\ search'[r] # search[r] /\ search'[r].readOk) =>
            LET jobId == search[r].jobIds[search[r].i]
                kept == jobId \in DOMAIN cachedJobs /\ cachedJobs[jobId].isValid
            IN /\ search'[r].jobs =
                    (IF kept THEN search[r].jobs \o <<jobId>> ELSE search[r].jobs)
               /\ search'[r].jobs =
                    SelectSeq(SubSeq(search[r].jobIds, 1, search[r].i),
                              LAMBDA id : id \in Range(search'[r].jobs))
               /\ store' = store
               /\ IF search[r].i < Len(search[r].jobIds)
                  THEN search'[r].pc = "hit_read" /\ search'[r].i = search[r].i + 1
                  ELSE /\ search'[r].pc = "done"
                       /\ search'[r].resp.jobs = search'[r].jobs
                       /\ search'[r].resp.fromCache]_vars

InvalidListingSuppressedButStored ==
    \E r \in SearchSlots :
       /\ search[r].pc = "done"
       /\ search[r].readOk
       /\ search[r].resp.status = 200 /\ search[r].resp.fromCache
       /\ search[r].jobIds = <<1, 2>>
       /\ search[r].resp.jobs = <<2>>
       /\ 1 \in DOMAIN cachedJobs
       /\ ~cachedJobs[1].isValid

(***************************************************************************)
(* updateJobValidity racing the sweep                                      *)
(***************************************************************************)
\* C20: when the updateDoc of updateJobValidity finds the listing gone, the
\* call writes nothing and returns false: the listing stays absent, the count
\* of writes that reached a document does not move, and the verification goes
\* on to its verdict as after any update, without an error response.
UpdateOfMissingListingWritesNothing ==
    [][\A r \in VerifySlots :
         (verify[r].pc = "update_write" /\ verify'[r] # verify[r]
             /\ verify[r].jobId \notin DOMAIN cachedJobs) =>
            /\ cachedJobs' = cachedJobs
            /\ verify[r].jobId \notin DOMAIN cachedJobs'
            /\ verify'[r].written = verify[r].written
            /\ verify'[r].pc \in {"page", "route_reread"}
            /\ verify'[r].resp = NoResponse
      ]_vars

ListingSweptBeforeUpdate ==
    \E r \in VerifySlots :
       /\ verify[r].job = "found"
       /\ verify[r].updates = 1
       /\ verify[r].written = 0
       /\ verify[r].pc \notin {"update_read", "update_write"}
       /\ verify[r].jobId \notin DOMAIN cachedJobs

(***************************************************************************)
(* cleanupExpiredJobs                                                      *)
(***************************************************************************)
\* the listings older than 20 days at the moment of the step
OlderThanRetention == { id \in DOMAIN cachedJobs : now - cachedJobs[id].createdAt > 20 * DAY }

\* C21: the batch of a sweep deletes listings older than 20 days only, and
\* when it deletes any, as many as min(batchSize, number of listings older
\* than 20 days); no listing within its 20 days is ever deleted, by a sweep or
\* by any other step.
SweepDeletesOnlyExpiredListings ==
    [][LET deleted == DOMAIN cachedJobs \ DOMAIN cachedJobs'
           n == Cardinality(OlderThanRetention)
       IN /\ deleted \subseteq OlderThanRetention
          /\ deleted # {} =>
               Cardinality(deleted) =
                  (IF n < DEFAULT_BATCH_SIZE THEN n ELSE DEFAULT_BATCH_SIZE)
      ]_vars

\* C22: the step that answers a fresh search starts the sweep and does not
\* wait for it: the response, status 200, is set while the sweep still has
\* its query to run; and no step of a sweep, failing or not, changes a search
\* or its response.
SweepIsFireAndForget ==
    [][ /\ \A r \in SearchSlots :
             (search[r].pc = "cache_write" /\ search'[r].pc # "cache_write") =>
                /\ search'[r].pc = "done"
                /\ search'[r].resp.status = 200
                /\ \E c \in CleanupSlots :
                      cleanup[c].pc = "idle" /\ cleanup'[c].pc = "query"
        /\ (\E c \in CleanupSlots :
               cleanup[c].pc \in {"query", "commit"} /\ cleanup'[c] # cleanup[c]) =>
             search' = search
      ]_vars

SearchAnsweredWhileSweepRuns ==
    \E r \in SearchSlots, c \in CleanupSlots :
       /\ search[r].pc = "done"
       /\ search[r].cached = "committed"
       /\ search[r].resp.status = 200
       /\ cleanup[c].pc = "commit"
       /\ cleanup[c].cutoff = now - 20 * DAY
       /\ cleanup[c].docs # {}

(***************************************************************************)
(* Requests running to completion.  Node runs the continuation of every    *)
(* await whose promise has settled, the store's calls settle, and a fetch  *)
(* given AbortSignal.timeout settles when the remote side answers or when  *)
(* the timer fires (the fetch then throws).  The provider fetch of         *)
(* route.ts line 151 is given no signal: nothing in the code settles it    *)
(* when the provider stays silent.                                         *)
(***************************************************************************)
LiveClockValues == { 15 * DAY + 1, 20 * DAY + 1 }

LiveClockAdvances == Quiet /\ \E t \in LiveClockValues : Tick(t)

LiveSearchArrives ==
    /\ NoRequest
    /\ FreeSlots # {}
    /\ arrivals < MaxRequests
    /\ arrivals' = arrivals + 1
    /\ \E r \in SearchSlots, params \in RaceParams, skipCache \in BOOLEAN :
         StartSearch(r, params, skipCache)

LiveLookup == \E r \in SearchSlots : Lookup(r, TRUE)
LiveHitRead == \E r \in SearchSlots : HitRead(r, TRUE)
LiveProviderFetch == \E r \in SearchSlots, outcome \in ConfigOutcomes : ProviderFetch(r, outcome)
LiveCacheWrite == \E r \in SearchSlots : CacheWrite(r, TRUE)
LiveFinishSearch == \E r \in SearchSlots : FinishSearch(r)
LiveCleanupQuery == \E c \in CleanupSlots : CleanupQuery(c, TRUE)
LiveCleanupCommit == \E c \in CleanupSlots : CleanupCommit(c, TRUE)
LiveRouteGet == \E r \in VerifySlots : RouteGet(r, TRUE)
LiveVerifyGet == \E r \in VerifySlots : VerifyGet(r, TRUE)
LiveBasicProbe == \E r \in VerifySlots, outcome \in ProbeOutcomes : BasicProbe(r, outcome)
LiveAdvancedFetch == \E r \in VerifySlots, outcome \in PageOutcomes : AdvancedFetch(r, outcome)
LiveUpdateRead == \E r \in VerifySlots : UpdateRead(r, TRUE)
LiveUpdateWrite == \E r \in VerifySlots : UpdateWrite(r, TRUE)
LiveRouteReread == \E r \in VerifySlots : RouteReread(r, TRUE)
LiveFinishVerify == \E r \in VerifySlots : FinishVerify(r)

NextLive ==
    \/ LiveClockAdvances
    \/ LiveSearchArrives
    \/ LiveLookup
    \/ LiveHitRead
    \/ LiveProviderFetch
    \/ LiveCacheWrite
    \/ LiveFinishSearch
    \/ LiveCleanupQuery
    \/ LiveCleanupCommit
    \/ VerifyArrives
    \/ LiveRouteGet
    \/ LiveVerifyGet
    \/ LiveBasicProbe
    \/ LiveAdvancedFetch
    \/ LiveUpdateRead
    \/ LiveUpdateWrite
    \/ LiveRouteReread
    \/ LiveFinishVerify

\* every step but the provider's answer, the arrivals, the clock and the
\* callers taking their responses is bound to happen once it can
FairLive ==
    /\ WF_vars(LiveLookup)
    /\ WF_vars(LiveHitRead)
    /\ WF_vars(LiveCacheWrite)
    /\ WF_vars(LiveCleanupQuery)
    /\ WF_vars(LiveCleanupCommit)
    /\ WF_vars(LiveRouteGet)
    /\ WF_vars(LiveVerifyGet)
    /\ WF_vars(LiveBasicProbe)
    /\ WF_vars(LiveAdvancedFetch)
    /\ WF_vars(LiveUpdateRead)
    /\ WF_vars(LiveUpdateWrite)
    /\ WF_vars(LiveRouteReread)

SpecLive == InitQuota /\ [][NextLive]_vars /\ FairLive

\* C23: every request eventually completes: a search that has issued its
\* provider call is eventually answered, and a verification that has issued
\* its basic probe or its advanced fetch is eventually answered.
EveryRequestCompletes ==
    /\ \A r \in SearchSlots : (search[r].pc = "fetch") ~> (search[r].pc = "done")
    /\ \A r \in VerifySlots :
          (verify[r].pc \in {"head", "page"}) ~> (verify[r].pc = "done")

\* the half of C23 that the code keeps: a verification past its first outbound
\* call is eventually answered
EveryVerificationCompletes ==
    \A r \in VerifySlots :
       (verify[r].pc \in {"head", "page"}) ~> (verify[r].pc = "done")

-----------------------------------------------------------------------------
(* src/app/lib/searchEnhancer.ts: the query optimizer.  JavaScript strings *)
(* are TLA+ strings; a JavaScript Set, which iterates in insertion order,   *)
(* is a sequence without repetitions.                                       *)

JOB_CATEGORIES ==
    << [category |-> "software",
        keywords |-> <<"software engineer", "software developer", "programmer", "coder", "developer", "swe", "dev">>],
       [category |-> "frontend",
        keywords |-> <<"frontend developer", "front-end developer", "react developer", "angular developer", "vue developer", "ui developer", "javascript developer", "web developer", "fe dev">>],
       [category |-> "backend",
        keywords |-> <<"backend developer", "back-end developer", "api developer", "server developer", "php developer", "python developer", "java developer", "node developer", "be dev">>],
       [category |-> "fullstack",
        keywords |-> <<"full stack developer", "full-stack developer", "web developer", "fullstack dev", "fs dev">>],
       [category |-> "mobile",
        keywords |-> <<"mobile developer", "android developer", "ios developer", "react native developer", "app developer">>],
       [category |-> "devops",
        keywords |-> <<"devops engineer", "cloud engineer", "sre", "site reliability engineer", "infrastructure engineer">>],
       [category |-> "data",
        keywords |-> <<"data scientist", "data analyst", "data engineer", "business analyst", "database administrator", "ds">>],
       [category |-> "analytics",
        keywords |-> <<"analytics", "business intelligence", "bi analyst", "data visualization", "tableau">>],
       [category |-> "machine learning",
        keywords |-> <<"ml engineer", "ai engineer", "artificial intelligence", "deep learning", "nlp", "ml">>],
       [category |-> "design",
        keywords |-> <<"ui designer", "ux designer", "graphic designer", "web designer", "product designer">>],
       [category |-> "product",
        keywords |-> <<"product designer", "product manager", "product owner", "ux researcher", "pm">>],
       [category |-> "marketing",
        keywords |-> <<"digital marketing", "content marketing", "seo specialist", "social media manager", "marketing manager">>],
       [category |-> "sales",
        keywords |-> <<"sales representative", "account executive", "business development", "sales manager">>],
       [category |-> "finance",
        keywords |-> <<"financial analyst", "accountant", "controller", "finance manager", "bookkeeper">>],
       [category |-> "manager",
        keywords |-> <<"project manager", "team lead", "director", "program manager", "scrum master">>],
       [category |-> "executive",
        keywords |-> <<"cto", "ceo", "vp", "vice president", "chief">>],
       [category |-> "intern",
        keywords |-> <<"internship", "co-op", "student", "graduate", "junior">>],
       [category |-> "senior",
        keywords |-> <<"sr", "lead", "principal", "architect", "expert">>],
       [category |-> "junior",
        keywords |-> <<"jr", "entry level", "associate", "trainee", "beginner">>] >>

ABBREVIATIONS ==
    << [word |-> "eng", expansions |-> <<"engineer", "engineering">>],
       [word |-> "dev", expansions |-> <<"developer", "development">>],
       [word |-> "mgr", expansions |-> <<"manager">>],
       [word |-> "sr", expansions |-> <<"senior">>],
       [word |-> "jr", expansions |-> <<"junior">>],
       [word |-> "swe", expansions |-> <<"software engineer">>],
       [word |-> "fe", expansions |-> <<"frontend", "front-end">>],
       [word |-> "be", expansions |-> <<"backend", "back-end">>],
       [word |-> "fs", expansions |-> <<"fullstack", "full-stack">>],
       [word |-> "pm", expansions |-> <<"product manager", "project manager">>],
       [word |-> "qa", expansions |-> <<"quality assurance", "tester">>],
       [word |-> "ui", expansions |-> <<"user interface">>],
       [word |-> "ux", expansions |-> <<"user experience">>],
       [word |-> "ai", expansions |-> <<"artificial intelligence">>],
       [word |-> "ml", expansions |-> <<"machine learning">>],
       [word |-> "bi", expansions |-> <<"business intelligence">>],
       [word |-> "ds", expansions |-> <<"data scientist">>],
       [word |-> "sci", expansions |-> <<"scientist">>] >>

UpperCaseLetters == "ABCDEFGHIJKLMNOPQRSTUVWXYZ"

LowerCaseLetters == "abcdefghijklmnopqrstuvwxyz"

CharAt(s, i) == SubSeq(s, i, i)

LowerChar(c) ==
    IF \E i \in 1..26 : CharAt(UpperCaseLetters, i) = c
    THEN CharAt(LowerCaseLetters, CHOOSE i \in 1..26 : CharAt(UpperCaseLetters, i) = c)
    ELSE c

RECURSIVE toLowerCase(_)
toLowerCase(s) ==
    IF Len(s) = 0 THEN "" ELSE LowerChar(CharAt(s, 1)) \o toLowerCase(SubSeq(s, 2, Len(s)))

RECURSIVE trimStart(_)
trimStart(s) ==
    IF Len(s) > 0 /\ CharAt(s, 1) = " " THEN trimStart(SubSeq(s, 2, Len(s))) ELSE s

RECURSIVE trimEnd(_)
trimEnd(s) ==
    IF Len(s) > 0 /\ CharAt(s, Len(s)) = " " THEN trimEnd(SubSeq(s, 1, Len(s) - 1)) ELSE s

trim(s) == trimEnd(trimStart(s))

includes(s, t) ==
    \E i \in 1..(Len(s) - Len(t) + 1) : SubSeq(s, i, i + Len(t) - 1) = t

startsWith(s, t) == Len(t) <= Len(s) /\ SubSeq(s, 1, Len(t)) = t

\* s.split(/\s+/): a run of blanks separates two pieces, and a leading or a
\* trailing run leaves an empty piece.
RECURSIVE splitFrom(_, _, _)
splitFrom(s, i, piece) ==
    IF i > Len(s) THEN << piece >>
    ELSE IF CharAt(s, i) # " " THEN splitFrom(s, i + 1, piece \o CharAt(s, i))
    ELSE IF i > 1 /\ CharAt(s, i - 1) = " " THEN splitFrom(s, i + 1, piece)
    ELSE << piece >> \o splitFrom(s, i + 1, "")

split(s) == splitFrom(s, 1, "")

RECURSIVE join(_)
join(words) ==
    IF Len(words) = 0 THEN ""
    ELSE IF Len(words) = 1 THEN words[1]
    ELSE words[1] \o " " \o join(Tail(words))

\* Set.add: appended unless already a member.
add(set, x) == IF \E i \in 1..Len(set) : set[i] = x THEN set ELSE Append(set, x)

RECURSIVE addAll(_, _)
addAll(set, xs) == IF Len(xs) = 0 THEN set ELSE addAll(add(set, Head(xs)), Tail(xs))

slice(xs, n) == SubSeq(xs, 1, IF Len(xs) < n THEN Len(xs) ELSE n)

Expansions(word) ==
    IF \E a \in 1..Len(ABBREVIATIONS) : ABBREVIATIONS[a].word = word
    THEN ABBREVIATIONS[CHOOSE a \in 1..Len(ABBREVIATIONS) : ABBREVIATIONS[a].word = word].expansions
    ELSE << >>

RECURSIVE expandFrom(_, _, _)
expandFrom(words, i, expandedTerms) ==
    IF i > Len(words) THEN expandedTerms
    ELSE expandFrom(words, i + 1,
             addAll(expandedTerms,
                    [e \in 1..Len(Expansions(words[i])) |->
                        join([words EXCEPT ![i] = Expansions(words[i])[e]])]))

expandAbbreviations(term) == expandFrom(split(toLowerCase(term)), 1, << term >>)

wordsMatch(termWords, keywordWords) ==
    \A t \in 1..Len(termWords) :
        \E k \in 1..Len(keywordWords) :
            startsWith(keywordWords[k], termWords[t]) /\ Len(termWords[t]) >= 2

partialMatch(normalizedTerm, keyword) ==
    /\ Len(normalizedTerm) >= 3
    /\ \/ includes(toLowerCase(keyword), normalizedTerm)
       \/ startsWith(toLowerCase(keyword), normalizedTerm)
       \/ wordsMatch(split(normalizedTerm), split(toLowerCase(keyword)))

\* The loop of findFuzzyMatches visits, for each category in declaration
\* order, first its two leading keywords and then each of its keywords: a
\* visit is <<c, j>>, j <= 2 for a leading keyword, j - 2 the keyword index
\* otherwise.
Visits ==
    UNION { { << c, j >> : j \in 1..(2 + Len(JOB_CATEGORIES[c].keywords)) } :
            c \in 1..Len(JOB_CATEGORIES) }

VisitedKeyword(v) ==
    JOB_CATEGORIES[v[1]].keywords[IF v[2] <= 2 THEN v[2] ELSE v[2] - 2]

VisitBefore(v, w) == v[1] < w[1] \/ (v[1] = w[1] /\ v[2] < w[2])

VisitAdds(normalizedTerm, v) ==
    IF v[2] <= 2
    THEN includes(normalizedTerm, JOB_CATEGORIES[v[1]].category)
    ELSE partialMatch(normalizedTerm, VisitedKeyword(v))

\* The matches Set in insertion order: the term, then the keyword of each
\* adding visit the first time that keyword is added.
fuzzyMatchSet(term) ==
    LET adding == { v \in Visits : VisitAdds(trim(toLowerCase(term)), v) }
        first  == { v \in adding :
                      /\ VisitedKeyword(v) # term
                      /\ \A w \in adding :
                             VisitBefore(w, v) => VisitedKeyword(w) # VisitedKeyword(v) }
        nth(k) == CHOOSE v \in first :
                      Cardinality({ w \in first : VisitBefore(w, v) }) = k - 1
    IN  << term >> \o [k \in 1..Cardinality(first) |-> VisitedKeyword(nth(k))]

findFuzzyMatches(term) == slice(fuzzyMatchSet(term), 3)

RECURSIVE allFuzzyMatches(_, _)
allFuzzyMatches(expandedTerms, allMatches) ==
    IF Len(expandedTerms) = 0 THEN allMatches
    ELSE allFuzzyMatches(Tail(expandedTerms),
                         addAll(allMatches, findFuzzyMatches(Head(expandedTerms))))

betterMatches(query, matchesArray) ==
    SelectSeq(matchesArray,
              LAMBDA match : /\ toLowerCase(match) # toLowerCase(query)
                             /\ Len(match) > Len(query))

\* sort((a, b) => b.length - a.length)[0]: the sort is stable, so its first
\* element is the earliest of the longest matches.
firstLongest(matches) ==
    matches[CHOOSE i \in 1..Len(matches) :
                /\ \A j \in 1..Len(matches) : Len(matches[j]) <= Len(matches[i])
                /\ \A j \in 1..(i - 1) : Len(matches[j]) < Len(matches[i])]

optimizeSearchQuery(query) ==
    IF trim(query) = "" THEN ""
    ELSE IF includes(query, " OR ") \/ includes(query, " AND ") THEN query
    ELSE LET better == betterMatches(query, allFuzzyMatches(expandAbbreviations(query), << >>))
         IN  IF Len(better) > 0 THEN firstLongest(better) ELSE query

\* route.ts: the "what" parameter of the provider URL built for a request,
\* "" when the request has no title and the parameter is left out.
what(req) ==
    IF req.params.title # "" THEN optimizeSearchQuery(req.params.title) ELSE ""

\* C24: for the search (title "frontend dev", location "", page 1) on an
\* empty cache the provider is called once, and the title passed to it
\* contains the word "developer".
FrontendDevSearchAsksForDeveloper ==
    \A r \in SearchSlots :
        ( /\ search[r].pc = "fetch"
          /\ search[r].params.title = "frontend dev"
          /\ search[r].params.location = ""
          /\ search[r].params.page = 1
          /\ DOMAIN cachedJobs = {}
          /\ DOMAIN cachedSearchResults = {} )
        => /\ search[r].calls = 1
           /\ includes(what(search[r]), "developer")

-----------------------------------------------------------------------------
(* The optimizer over a range of titles.  The provider is down, so every   *)
(* search is a miss that builds the provider URL and nothing is cached.     *)

OptimizeTitles ==
    { "frontend dev", "swe", "dev", "pm", "sr pm", "ml eng", "java",
      "data sci", "react native", "senior", "xyz", "Frontend Dev" }

OptimizeParams ==
    { [title |-> t, location |-> "", job_type |-> "", page |-> 1] : t \in OptimizeTitles }

OptimizeOutcomes == { o \in ProviderOutcomes : o.kind = "throw" \/ o.status # 200 }

OptimizeSearchArrives ==
    /\ NoRequest
    /\ arrivals < MaxRequests
    /\ arrivals' = arrivals + 1
    /\ \E r \in SearchSlots, params \in OptimizeParams, skipCache \in BOOLEAN :
          StartSearch(r, params, skipCache)

NextOptimize ==
    \/ OptimizeSearchArrives
    \/ \E r \in SearchSlots : Lookup(r, TRUE)
    \/ \E r \in SearchSlots, outcome \in OptimizeOutcomes : ProviderFetch(r, outcome)
    \/ \E r \in SearchSlots : FinishSearch(r)

SpecOptimize == InitQuota /\ [][NextOptimize]_vars

Taxonomy == { VisitedKeyword(v) : v \in Visits }

\* The taxonomy phrases that the query or one of its expanded variants
\* matches by substring, prefix or word prefix, less those equal to the query
\* or not longer than it.
SurvivingCandidates(query) ==
    LET variants == expandAbbreviations(query)
    IN  { k \in Taxonomy :
            /\ \E i \in 1..Len(variants) : partialMatch(trim(toLowerCase(variants[i])), k)
            /\ toLowerCase(k) # toLowerCase(query)
            /\ Len(k) > Len(query) }

\* C25: for a non-empty query without boolean operators the optimizer
\* returns a longest matching taxonomy phrase among those longer than the
\* query, and the query itself when there is none.
OptimizerReturnsLongestTaxonomyMatch ==
    \A r \in SearchSlots :
        search[r].pc = "fetch" =>
            LET query == search[r].params.title
            IN  IF SurvivingCandidates(query) = {}
                THEN what(search[r]) = query
                ELSE /\ what(search[r]) \in SurvivingCandidates(query)
                     /\ \A k \in SurvivingCandidates(query) :
                            Len(k) <= Len(what(search[r]))

-----------------------------------------------------------------------------
(* Verification: precedence, escalation, attempt counts.                     *)

\* C26: the advanced check decides invalid on a non-success status, else
\* invalid on a closed phrase even beside an open indicator, else valid
\* exactly when an open indicator is present; each of these outcomes is
\* handed to updateJobValidity with the decided value, which is the value a
\* completed update stores.
AdvancedCheckPrecedence ==
    [][\A r \in VerifySlots :
          /\ (verify[r].pc = "page" /\ verify'[r].pc # "page"
                 /\ verify'[r].page.kind = "response") =>
                /\ verify'[r].pc = "update_read"
                /\ verify'[r].stage = "advanced"
                /\ verify'[r].updates = verify[r].updates + 1
                /\ verify'[r].isValid =
                      (IF verify'[r].page.status < 200 \/ verify'[r].page.status > 299
                       THEN FALSE
                       ELSE IF verify'[r].page.closed THEN FALSE
                       ELSE verify'[r].page.open)
          /\ (verify[r].pc = "update_write" /\ verify[r].stage = "advanced"
                 /\ verify'[r].written = verify[r].written + 1) =>
                /\ verify[r].jobId \in DOMAIN cachedJobs'
                /\ cachedJobs'[verify[r].jobId].isValid = verify[r].isValid
      ]_vars

ClosedPhraseBesideOpenIndicatorRecorded ==
    \E r \in VerifySlots :
        /\ verify[r].pc = "route_reread"
        /\ verify[r].stage = "advanced"
        /\ verify[r].page.kind = "response"
        /\ verify[r].page.status = 200
        /\ verify[r].page.closed
        /\ verify[r].page.open
        /\ verify[r].written >= 1
        /\ verify[r].jobId \in DOMAIN cachedJobs
        /\ ~cachedJobs[verify[r].jobId].isValid

\* C27: when the basic probe fails with a network error or a timeout the
\* verification does not escalate: no fetch of the page body is issued,
\* whatever the listing's age.
ProbeFailureDoesNotEscalate ==
    \A r \in VerifySlots :
        verify[r].head.kind = "throw" =>
            /\ verify[r].pc # "page"
            /\ verify[r].page.kind = "none"

(* Concurrent verifications of one stored listing.  One search stores the   *)
(* listing; every later request is a verification of it, so nothing          *)
(* overwrites the listing while verifications run.                           *)

SeedSearchArrives ==
    /\ arrivals = 0
    /\ arrivals' = arrivals + 1
    /\ \E r \in SearchSlots, params \in RaceParams : StartSearch(r, params, FALSE)

CountingVerifyArrives ==
    /\ arrivals >= 1
    /\ \A r \in SearchSlots : search[r].pc = "idle"
    /\ arrivals < MaxRequests
    /\ arrivals' = arrivals + 1
    /\ \E r \in VerifySlots : StartVerify(r, 1)

NextCounting ==
    \/ RaceClockAdvances
    \/ SeedSearchArrives
    \/ \E r \in SearchSlots : Lookup(r, TRUE)
    \/ \E r \in SearchSlots, outcome \in RaceOutcomes : ProviderFetch(r, outcome)
    \/ \E r \in SearchSlots : CacheWrite(r, TRUE)
    \/ \E r \in SearchSlots : FinishSearch(r)
    \/ \E c \in CleanupSlots : CleanupQuery(c, TRUE)
    \/ \E c \in CleanupSlots : CleanupCommit(c, TRUE)
    \/ CountingVerifyArrives
    \/ \E r \in VerifySlots : RouteGet(r, TRUE)
    \/ \E r \in VerifySlots : VerifyGet(r, TRUE)
    \/ \E r \in VerifySlots, outcome \in RaceProbeOutcomes : BasicProbe(r, outcome)
    \/ \E r \in VerifySlots, outcome \in RacePageOutcomes : AdvancedFetch(r, outcome)
    \/ \E r \in VerifySlots : UpdateRead(r, TRUE)
    \/ \E r \in VerifySlots : UpdateWrite(r, TRUE)
    \/ \E r \in VerifySlots : RouteReread(r, TRUE)
    \/ \E r \in VerifySlots : FinishVerify(r)

SpecCounting == InitQuota /\ [][NextCounting]_vars

\* C28: every completed updateJobValidity on an existing listing raises its
\* attempt count by exactly 1, also when calls for the same listing
\* interleave.
EveryUpdateCountsOnce ==
    [][\A r \in VerifySlots :
          (verify[r].pc = "update_write" /\ verify'[r].written = verify[r].written + 1) =>
              cachedJobs'[verify[r].jobId].verificationAttempts =
                  cachedJobs[verify[r].jobId].verificationAttempts + 1
      ]_vars

-----------------------------------------------------------------------------
(* Stored search results and the listings they reference.                    *)

\* the listings a stored search result references carry a cache timestamp
\* no earlier than the result's own
ReferencedListingsNotOlder ==
    \A k \in DOMAIN cachedSearchResults :
        \A id \in Range(cachedSearchResults[k].jobIds) :
            id \in DOMAIN cachedJobs =>
                cachedJobs[id].createdAt >= cachedSearchResults[k].createdAt

\* C29: each listing referenced by a stored search result has a cache
\* timestamp no earlier than the result's, and a search result that is not
\* yet expired references only listings that are stored, so that a cache hit
\* finds every listing it references.
UnexpiredResultsReferenceStoredListings ==
    /\ ReferencedListingsNotOlder
    /\ \A k \in DOMAIN cachedSearchResults :
          ~IsExpired(cachedSearchResults[k].createdAt, now) =>
              Range(cachedSearchResults[k].jobIds) \subseteq DOMAIN cachedJobs

-----------------------------------------------------------------------------
(* The applied-jobs list under concurrent calls.  The store's calls all     *)
(* succeed except that a write or a delete may be refused.                   *)

NextApplied ==
    \/ \E r \in ApplySlots, userId \in UserIds, jobId \in JobIds :
          StartApply(r, "add", userId, jobId)
    \/ \E r \in ApplySlots, userId \in UserIds, jobId \in JobIds :
          StartApply(r, "remove", userId, jobId)
    \/ \E r \in ApplySlots : AddCheck(r, TRUE)
    \/ \E r \in ApplySlots, storeOk \in BOOLEAN : AddWrite(r, storeOk)
    \/ \E r \in ApplySlots : RemoveQuery(r, TRUE)
    \/ \E r \in ApplySlots, storeOk \in BOOLEAN : RemoveDelete(r, storeOk)
    \/ \E r \in ApplySlots : FinishApply(r)

SpecApplied == InitQuota /\ [][NextApplied]_vars

\* C30: at most one applied-job record exists per (user, job) pair, also
\* when two addAppliedJob calls for the same pair interleave.
AtMostOneRecordPerPair ==
    \A userId \in UserIds, jobId \in JobIds :
        Cardinality(Matching(userId, jobId)) <= 1

====
